---- MODULE Spec2Model ----
(***************************************************************************)
(* Session Memory Capture engine of nex-level-code: the two Stop hooks     *)
(* generated by src/services/install.ts, nlc-dev-logger.js (daily log) and *)
(* nlc-context-keeper.js (auto-captured section of session-handoff.md).    *)
(*                                                                         *)
(* Text is modelled as a sequence of tokens.  A token stands for a run of  *)
(* characters; "nl" is a newline, "sp" is white space, "S" is the text     *)
(* '<!-- AUTO-CAPTURED', "E" is '<!-- END AUTO-CAPTURED -->'.  A file is   *)
(* <<>> when it does not exist and <<content>> when it does.               *)
(*                                                                         *)
(* Several specifications share the module.  Spec is one capture hook of   *)
(* one session, and KillSpec is Spec with its kills and log writes noted;  *)
(* BothSpec is the two capture hooks of one session side by side and       *)
(* HandoffSpec is context-keeper with edits of session-handoff.md;         *)
(* SyncSpec is the memory-sync hook (templates/hooks/memory-sync.js) on    *)
(* two machines sharing a remote; ConfigSpec is what nlc install, nlc      *)
(* update, nlc sync and nlc uninstall write; RaceSpec is two sessions of   *)
(* one project sharing a cursor document and LogSpec two dev-loggers       *)
(* sharing a daily log; EntrySpec is the five hook entry points as         *)
(* functions of their input; CursorSpec is the cursor store called on a    *)
(* document in any condition.  Each specification holds the other parts'   *)
(* variables at rest.                                                      *)
(***************************************************************************)
EXTENDS Integers, Sequences, FiniteSets, TLC

\* ------------------------------------------------------------------ bounds

\* Largest number of raw lines (blank ones included) a transcript grows to.
MaxLines == 2

\* --------------------------------------------------------- program constants

GateMinLen == 100
UserCap == 500
BashCap == 300
PromptCap == 6000

\* ------------------------------------------------------------------- files

Absent == <<>>
File(c) == <<c>>
Exists(f) == f # <<>>
Content(f) == f[1]

Pipelines == {"dev", "ctx"}
Sessions == {"s1"}
\* A session that ended before the model starts; it only owns cursor entries.
OldSession == "s0"

\* The memory directory candidates of one project (key = cwdToProjectKey(cwd)):
\*   claudeLower  ~/.claude/projects/<lowerKey>/memory
\*   claudeUpper  ~/.claude/projects/<key>/memory
\*   nlcLower     ~/.nlc/projects/<lowerKey>
\*   nlcUpper     ~/.nlc/projects/<key>
MemDirs == {"claudeLower", "claudeUpper", "nlcLower", "nlcUpper"}

\* ------------------------------------------------------------------- text

IsSpace(t) == t \in {"sp", "nl"}

RECURSIVE TrimLeft(_)
TrimLeft(s) == IF s # <<>> /\ IsSpace(Head(s)) THEN TrimLeft(Tail(s)) ELSE s

RECURSIVE TrimRight(_)
TrimRight(s) ==
    IF s # <<>> /\ IsSpace(s[Len(s)]) THEN TrimRight(SubSeq(s, 1, Len(s) - 1)) ELSE s

\* String.prototype.trim
Trim(s) == TrimRight(TrimLeft(s))

\* String.prototype.split('\n'): the pieces between the newlines
RECURSIVE SplitNl(_, _)
SplitNl(s, cur) ==
    IF s = <<>> THEN <<cur>>
    ELSE IF Head(s) = "nl" THEN <<cur>> \o SplitNl(Tail(s), <<>>)
    ELSE SplitNl(Tail(s), Append(cur, Head(s)))

Split(s) == SplitNl(s, <<>>)

\* Array.prototype.join('\n')
RECURSIVE JoinNl(_)
JoinNl(ls) ==
    IF ls = <<>> THEN <<>>
    ELSE IF Len(ls) = 1 THEN ls[1]
    ELSE ls[1] \o <<"nl">> \o JoinNl(Tail(ls))

\* Array.prototype.slice(n) for n >= 0
Slice(seq, n) == IF n >= Len(seq) THEN <<>> ELSE SubSeq(seq, n + 1, Len(seq))

\* String.prototype.indexOf of a one-token marker, 1-based; 0 when not found
IndexOf(s, tok) ==
    IF \E i \in DOMAIN s : s[i] = tok
    THEN CHOOSE i \in DOMAIN s : s[i] = tok /\ \A j \in 1..(i - 1) : s[j] # tok
    ELSE 0

Min(a, b) == IF a < b THEN a ELSE b

\* -------------------------------------------------------------- transcript

\* One raw transcript line, by what the extractor makes of it:
\*   blank  empty or white space only
\*   bad    not parseable as JSON
\*   user   {"type":"user","message":{"content":"<20 characters>"}}
\*   long   {"type":"assistant","message":{"content":"<120 characters>"}}
\*   tool   {"type":"assistant","message":{"content":[{"type":"tool_use",
\*           "name":"Bash","input":{"command":"<10 characters>"}}]}}
LineKinds == {"blank", "bad", "user", "long", "tool"}

\* lines = content.split('\n').filter(l => l.trim()): the raw indices kept
FilterBlank(raw) ==
    LET F[i \in 0..Len(raw)] ==
            IF i = 0 THEN <<>>
            ELSE IF raw[i] # "blank" THEN Append(F[i - 1], i) ELSE F[i - 1]
    IN F[Len(raw)]

\* Mutant of the line loop: a line that fails to parse is pushed as it is
LinePartsRaw(raw, i) ==
    CASE raw[i] = "user" -> <<[line |-> i, len |-> 6 + Min(20, UserCap)]>>
      [] raw[i] = "long" -> <<[line |-> i, len |-> 120]>>
      [] raw[i] = "tool" -> <<[line |-> i, len |-> 7 + Min(10, BashCap) + 1]>>
      [] raw[i] = "bad" -> <<[line |-> i, len |-> 120]>>
      [] OTHER -> <<>>

\* The parts one line pushes: <<>> or one part [line, len]
LineParts(raw, i) ==
    CASE raw[i] = "user" -> <<[line |-> i, len |-> 6 + Min(20, UserCap)]>>
      [] raw[i] = "long" -> <<[line |-> i, len |-> 120]>>
      [] raw[i] = "tool" -> <<[line |-> i, len |-> 7 + Min(10, BashCap) + 1]>>
      [] OTHER -> <<>>

RECURSIVE PartsOf(_, _)
PartsOf(raw, idx) ==
    IF idx = <<>> THEN <<>> ELSE LineParts(raw, Head(idx)) \o PartsOf(raw, Tail(idx))

RECURSIVE SumLen(_)
SumLen(parts) == IF parts = <<>> THEN 0 ELSE Head(parts).len + SumLen(Tail(parts))

\* parts.join('\n').length
TextLength(parts) == IF parts = <<>> THEN 0 ELSE SumLen(parts) + Len(parts) - 1

\* getLatestExchange; found = FALSE is the null it returns for a missing file
NoExchange ==
    [found |-> FALSE, parts |-> <<>>, hasToolUse |-> FALSE, totalLines |-> 0,
     newLines |-> <<>>]

\* Mutant of getLatestExchange: the slice at the cursor is left out
GetLatestExchangeNoSlice(t, cursorLine) ==
    IF ~Exists(t) THEN NoExchange
    ELSE LET raw == Content(t)
             lines == FilterBlank(raw)
         IN [found |-> TRUE,
             parts |-> PartsOf(raw, lines),
             hasToolUse |-> \E j \in DOMAIN lines : raw[lines[j]] = "tool",
             totalLines |-> Len(lines),
             newLines |-> lines]

GetLatestExchange(t, cursorLine) ==
    IF ~Exists(t) THEN NoExchange
    ELSE LET raw == Content(t)
             lines == FilterBlank(raw)
             newLines == Slice(lines, cursorLine)
         IN [found |-> TRUE,
             parts |-> PartsOf(raw, newLines),
             hasToolUse |-> \E j \in DOMAIN newLines : raw[newLines[j]] = "tool",
             totalLines |-> Len(lines),
             newLines |-> newLines]

\* ------------------------------------------------------------ cursor store

EmptyData == [k \in {} |-> 0]

\* getCursor (dev-cursor.json)
GetCursor(doc, sessionId) ==
    IF ~Exists(doc) THEN 0
    ELSE IF ~Content(doc).valid THEN 0
    ELSE IF sessionId \in DOMAIN Content(doc).data
         THEN Content(doc).data[sessionId] ELSE 0

\* Mutant of setCursor: the new offset is not written
SetCursorKeep(doc, sessionId, line) == doc

\* Mutant of setCursor: the document is rebuilt from the one new entry
SetCursorOnly(doc, sessionId, line) ==
    File([valid |-> TRUE, data |-> [k \in {sessionId} |-> line]])

\* Mutant of setCursor: the entries of a document that failed to parse are kept
SetCursorTrusting(doc, sessionId, line) ==
    LET data == IF Exists(doc) THEN Content(doc).data ELSE EmptyData
    IN File([valid |-> TRUE,
             data |-> [k \in DOMAIN data \cup {sessionId} |->
                          IF k = sessionId THEN line ELSE data[k]]])

\* setCursor (dev-cursor.json): read, set one key, write the whole document.
\* (It first creates <cwd>/.memory, which nothing else looks at.)
SetCursor(doc, sessionId, line) ==
    LET data == IF Exists(doc) /\ Content(doc).valid THEN Content(doc).data ELSE EmptyData
    IN File([valid |-> TRUE,
             data |-> [k \in DOMAIN data \cup {sessionId} |->
                          IF k = sessionId THEN line ELSE data[k]]])

\* Mutant of getContextCursor: the stored entry is never found
GetContextCursorZero(doc, sessionId) == 0

\* getContextCursor (context-cursor.json)
GetContextCursor(doc, sessionId) ==
    IF ~Exists(doc) THEN 0
    ELSE IF ~Content(doc).valid THEN 0
    ELSE IF sessionId \in DOMAIN Content(doc).data
         THEN Content(doc).data[sessionId] ELSE 0

\* Mutant of setContextCursor: the new offset is not written
SetContextCursorKeep(doc, sessionId, line) == doc

\* setContextCursor (context-cursor.json)
SetContextCursor(doc, sessionId, line) ==
    LET data == IF Exists(doc) /\ Content(doc).valid THEN Content(doc).data ELSE EmptyData
    IN File([valid |-> TRUE,
             data |-> [k \in DOMAIN data \cup {sessionId} |->
                          IF k = sessionId THEN line ELSE data[k]]])

\* Mutant of the cursor paths: both scripts use dev-cursor.json
GetCursorPathShared(p) == "dev"

\* getCursorPath and getContextCursorPath: the cursor document of each script
\* (named here by the script: "dev" is dev-cursor.json, "ctx" context-cursor.json)
GetCursorPath(p) == p

ReadCursor(p, doc, s) == IF p = "dev" THEN GetCursor(doc, s) ELSE GetContextCursor(doc, s)
WriteCursor(p, doc, s, n) ==
    IF p = "dev" THEN SetCursor(doc, s, n) ELSE SetContextCursor(doc, s, n)

\* -------------------------------------------------------------- classifier

\* What the classifier service does with one request:
\*   netErr   fetch rejects
\*   notOk    a response whose ok flag is false
\*   badJson  response.json() rejects
\*   noText   a body without content[0].text
\*   text     a body whose first block carries the text
Reply(kind, text) == [kind |-> kind, text |-> text]

\* Texts the classifier returns in the model (w1, w2 are words without
\* markers; "dash" is '- '; <<"NONE","w1">> is a word that begins with NONE).
ReplyTexts ==
    { <<"NONE">>,
      <<"sp", "NONE", "nl">>,
      <<"NONE", "w1">>,
      <<"sp", "nl">>,
      <<>>,
      <<"w1">>,
      <<"sp", "w1", "nl", "nl", "dash", "w2", "sp", "nl", "NONE">>,
      <<"w1", "E", "w2">> }

Replies ==
    { Reply(k, <<>>) : k \in {"netErr", "notOk", "badJson", "noText"} }
        \cup { Reply("text", t) : t \in ReplyTexts }

\* callSmallModel / callHaiku after the fetch was issued: threw = TRUE when
\* the awaited promise rejects; response is <<>> for null, else <<text>>.
CallSmallModel(reply) ==
    CASE reply.kind \in {"netErr", "badJson"} -> [threw |-> TRUE, response |-> <<>>]
      [] reply.kind \in {"notOk", "noText"} -> [threw |-> FALSE, response |-> <<>>]
      [] OTHER ->
            [threw |-> FALSE,
             response |-> IF reply.text = <<>> THEN <<>> ELSE <<reply.text>>]

\* Mutant of the sentinel test: only the exact match is taken for NONE
IsNoneExact(response) ==
    \/ response = <<>>
    \/ response[1] = <<>>
    \/ Trim(response[1]) = <<"NONE">>

\* !response || response.trim() === 'NONE' || response.trim().startsWith('NONE')
IsNone(response) ==
    \/ response = <<>>
    \/ response[1] = <<>>
    \/ Trim(response[1]) = <<"NONE">>
    \/ (Trim(response[1]) # <<>> /\ Head(Trim(response[1])) = "NONE")

RECURSIVE TrimEach(_)
TrimEach(ls) == IF ls = <<>> THEN <<>> ELSE <<Trim(Head(ls))>> \o TrimEach(Tail(ls))

KeepLine(l) == l # <<>> /\ l # <<"NONE">>

\* response.trim().split('\n').map(l => l.trim()).filter(l => l && l !== 'NONE')
ResponseLines(text) == SelectSeq(TrimEach(Split(Trim(text))), KeepLine)

\* ------------------------------------------------------------- daily log

\* `# Developments - ${dateStr}\n\n`
LogHeader == <<"hdr", "nl", "nl">>

RECURSIVE RenderEntries(_)
RenderEntries(ls) ==
    IF ls = <<>> THEN <<>> ELSE <<(<<"time">> \o Head(ls))>> \o RenderEntries(Tail(ls))

\* devLines.map(line => `- **${timeStr}** - ${line}`).join('\n')
Entries(devLines) == JoinNl(RenderEntries(devLines))

\* Mutant of the log append: the file is started again from the header
AppendLogOverwrite(file, devLines) == File(LogHeader \o Entries(devLines) \o <<"nl">>)

\* existing + entries + '\n', existing being the file or the header
AppendLog(file, devLines) ==
    LET existing == IF Exists(file) THEN Content(file) ELSE LogHeader
    IN File(existing \o Entries(devLines) \o <<"nl">>)

\* ------------------------------------------------------- handoff document

StartMarker == "S"
EndMarker == "E"
\* `<!-- AUTO-CAPTURED: ${dateTimeStr} -->` is the marker text, then "T"
AutoStart == <<StartMarker, "T">>
AutoEnd == <<EndMarker>>

\* Mutant of the bullet prefix: every line is given one
BulletAlways(line) == <<"dash">> \o line

\* line.startsWith('- ') ? line : `- ${line}`
Bullet(line) == IF line # <<>> /\ Head(line) = "dash" THEN line ELSE <<"dash">> \o line

RECURSIVE BulletEach(_)
BulletEach(ls) == IF ls = <<>> THEN <<>> ELSE <<Bullet(Head(ls))>> \o BulletEach(Tail(ls))

\* `${autoStart}\n${bulletLines}\n${autoEnd}`
AutoSection(bullets) ==
    AutoStart \o <<"nl">> \o JoinNl(BulletEach(bullets)) \o <<"nl">> \o AutoEnd

\* Mutant of the section replace: the old end marker is not cut out
MergeSectionKeepEnd(content, autoSection) ==
    LET existingStart == IndexOf(content, StartMarker)
        existingEnd == IndexOf(content, EndMarker)
    IN IF existingStart # 0 /\ existingEnd # 0
       THEN SubSeq(content, 1, existingStart - 1) \o autoSection
                \o SubSeq(content, existingEnd, Len(content))
       ELSE IF Len(content) > 0
            THEN autoSection \o <<"nl", "nl">> \o content
            ELSE autoSection \o <<"nl">>

\* Replace the existing auto-captured section or prepend the new one
MergeSection(content, autoSection) ==
    LET existingStart == IndexOf(content, StartMarker)
        existingEnd == IndexOf(content, EndMarker)
    IN IF existingStart # 0 /\ existingEnd # 0
       THEN SubSeq(content, 1, existingStart - 1) \o autoSection
                \o SubSeq(content, existingEnd + 1, Len(content))
       ELSE IF Len(content) > 0
            THEN autoSection \o <<"nl", "nl">> \o content
            ELSE autoSection \o <<"nl">>

\* Mutant of the handoff write: the document is written from the new section
\* alone, without reading it first
WriteHandoffBlind(file, autoSection) == File(autoSection \o <<"nl">>)

WriteHandoff(file, autoSection) ==
    File(MergeSection(IF Exists(file) THEN Content(file) ELSE <<>>, autoSection))

\* ------------------------------------------------------- memory directory

FirstExisting(cands, ds, default) ==
    IF \E i \in DOMAIN cands : cands[i] \in ds
    THEN cands[CHOOSE i \in DOMAIN cands :
                  cands[i] \in ds /\ \A j \in 1..(i - 1) : cands[j] \notin ds]
    ELSE default

\* getMemoryDir of dev-logger
GetMemoryDir(ds) ==
    FirstExisting(<<"claudeLower", "claudeUpper", "nlcLower", "nlcUpper">>, ds, "nlcLower")

\* getAutoMemoryDir of context-keeper
GetAutoMemoryDir(ds) == FirstExisting(<<"claudeLower", "claudeUpper">>, ds, "claudeLower")

\* ------------------------------------------------------------------ prompt

\* exchange.slice(0, 6000): the parts of which at least one character is kept
PromptParts(parts) ==
    LET Start[i \in 1..Len(parts)] ==
            IF i = 1 THEN 0 ELSE Start[i - 1] + parts[i - 1].len + 1
    IN SelectSeq([i \in 1..Len(parts) |-> [line |-> parts[i].line, len |-> parts[i].len,
                                            kept |-> Start[i] < PromptCap]],
                 LAMBDA x : x.kept)

\* The transcript lines whose text is in the prompt sent to the classifier
PromptLines(parts) == [i \in 1..Len(PromptParts(parts)) |-> PromptParts(parts)[i].line]

\* Mutant of the pre-filter: a tool block and a long text are both needed
GatePassesBoth(ex) == ex.hasToolUse /\ TextLength(ex.parts) >= GateMinLen

\* Mutant of the pre-filter: nothing is skipped
GatePassesAlways(ex) == TRUE

\* Pre-filter: !result.hasToolUse && result.text.length < 100 skips the call
GatePasses(ex) == ex.hasToolUse \/ TextLength(ex.parts) >= GateMinLen

\* ------------------------------------------------------------------- state

VARIABLES
    installed,    \* the hook scripts registered for the Stop event
    transcript,   \* [session -> file]: the raw lines of the session's transcript
    cursorDoc,    \* [pipeline -> file]: <cwd>/.memory/dev-cursor.json, context-cursor.json
    dirs,         \* the memory directory candidates that exist
    handoff,      \* [directory -> file]: session-handoff.md
    devlog,       \* [directory -> file]: today's YYYY-MM-DD.md
    pc,           \* [process -> position in main]
    loc,          \* [process -> the locals of main]
    extracted,    \* history: [process -> raw lines the runs that stored a cursor looped over]
    sent,         \* history: [process -> raw lines whose text went into a prompt]
    logged        \* history: [directory -> what the merge calls rendered, in call order]

\* The sync engine (nlc-memory-sync.js) is a separate process that shares no
\* variable with the capture hooks; its state is followed by SyncSpec.
VARIABLES
    remote,       \* the shared remote: [ver, tree] of its branch tip
    repo,         \* [machine -> the clone: work, index, head, branch, base, rebasing]
    local,        \* [machine -> the memory directory: exists, files]
    sp,           \* [machine -> position of the sync invocation]
    sh,           \* history: [machine -> what the current or last invocation did]
    edits,        \* number of documents written so far by the capture hooks
    runs          \* number of sync invocations started so far

\* The hook configuration of one tool, as the installer commands leave it
VARIABLES
    settings,     \* the tool's settings file: [exists, hooks: event -> hook groups]
    ops,          \* history: the installer commands run so far, in order
    starters,     \* [file -> text] of session-handoff.md and MEMORY.md in starterDir
    placed        \* [scripts: the nlc- scripts in scriptsDir, mcp: the NLC entry of the MCP config]

\* Two sessions of one project running the same capture hook
VARIABLES
    pipeline,     \* the hook script both sessions run
    transcripts,  \* [session -> file]: the raw lines of the session's transcript
    cursorFile,   \* the script's cursor document in <cwd>/.memory
    at,           \* [session -> position of the session's hook process]
    held,         \* [session -> locals of the process: cursor, totalLines, data]
    emitted,      \* history: [session -> the transcript lines extracted so far]
    finished,     \* history: [session -> the offset its last finished run stored, or -1]
    started       \* history: the number of invocations started so far

\* Two dev-logger processes of one project writing the same daily log
VARIABLES
    logFile,      \* the daily log <memoryDir>/YYYY-MM-DD.md
    logAt,        \* [session -> position of the session's dev-logger process]
    logHeld,      \* [session -> locals of the process: existing, devLines]
    logDone,      \* history: the entry blocks written to the log so far
    logRuns       \* history: the number of invocations that reached the log

\* History of a capture hook that is killed and run again
VARIABLES
    killed,       \* history: [process -> where and with what its last kill happened]
    wrote,        \* history: the regions (session, last line) whose entries were logged
    edited        \* history: the last edit of a handoff document and when it was made

\* One invocation of a hook entry point, by what it is given and how it ends
VARIABLES
    call,         \* the invocation: hook, payload and what it finds (or none yet)
    result        \* how it ended: status, printed, touched (or none yet)

hookVars == <<installed, transcript, cursorDoc, dirs, handoff, devlog, pc, loc, extracted, sent, logged>>
syncVars == <<remote, repo, local, sp, sh, edits, runs>>
configVars == <<settings, ops, starters, placed>>
raceVars == <<pipeline, transcripts, cursorFile, at, held, emitted, finished, started>>
logVars == <<logFile, logAt, logHeld, logDone, logRuns>>
noteVars == <<killed, wrote, edited>>
entryVars == <<call, result>>
vars == <<hookVars, syncVars, configVars, raceVars, logVars, noteVars, entryVars>>
\* What an action of one part leaves alone besides its own variables
besideHooks == <<syncVars, configVars, raceVars, logVars, noteVars, entryVars>>
besideSync == <<hookVars, configVars, raceVars, logVars, noteVars, entryVars>>
besideConfig == <<hookVars, syncVars, raceVars, logVars, noteVars, entryVars>>
besideRace == <<hookVars, syncVars, configVars, logVars, noteVars, entryVars>>
besideEntry == <<hookVars, syncVars, configVars, raceVars, logVars, noteVars>>
besideLog == <<hookVars, syncVars, configVars, raceVars, noteVars, entryVars>>

\* One process per hook script and session: the host runs a session's Stop
\* hooks once per response, so a script never overlaps itself in a session.
Procs == Pipelines \X Sessions

NoReply == Reply("none", <<>>)
\* seen is history, not a local of main: the number of non-blank lines the
\* transcript had when the run read it.
NoLoc ==
    [cursor |-> 0, ex |-> NoExchange, reply |-> NoReply, lines |-> <<>>, dir |-> "none",
     seen |-> 0]

Raw(s) == IF Exists(transcript[s]) THEN Content(transcript[s]) ELSE <<>>
NonBlankIdx(raw) == {i \in DOMAIN raw : raw[i] # "blank"}

\* Handoff documents that exist before the first capture
InitHandoffs ==
    { Absent,
      File(<<>>),
      File(<<"h1", "nl">>),
      File(<<"h1", "nl", "S", "T", "nl", "dash", "w0", "nl", "E", "nl", "h2">>) }

InitDirs == { {}, {"claudeUpper"}, {"nlcUpper"} }

\* Cursor documents before the first run: none, or the entry of an old session
InitCursorDocs ==
    { Absent, File([valid |-> TRUE, data |-> [k \in {OldSession} |-> 1]]) }

\* The sync engine at rest, as Spec sees it: no repository is configured
\* (findRepo returns null and main returns at once).
Machines == {"m1", "m2"}
\* File names of a memory directory or a repository working copy.  The first
\* is in SYNC_FILES, the second matches DEV_LOG_PATTERN, the others neither.
FileNames == {"MEMORY.md", "2026-01-01.md", "notes.txt", "CLAUDE.md"}
None == "none"
NoTree == [f \in FileNames |-> None]
\* What an invocation did, kept after it ends:
\*   kind       "pull" (syncPull) or "push" (syncPush)
\*   pulled     the result of its gitPull: "no" (not run yet), "ok", "failed"
\*   failed     a git command of it returned an error
\*   offline    a git command of it could not reach the remote
\*   differed   push: a tracked document differed from its repository copy
\*   same       push: the local documents identical to their repository copy
\*   dirty0     push: the paths whose working copy differed from HEAD at the start
\*   wrote      it created or changed a file of the memory directory
\*   committed, pushed   its git commit (git push) succeeded
\*   done       it ran to its end
\*   start      the lifecycle event that ran it is SessionStart
NoInvocation ==
    [kind |-> "none", start |-> FALSE, pulled |-> "no", failed |-> FALSE, offline |-> FALSE,
     differed |-> FALSE, same |-> {}, dirty0 |-> {}, wrote |-> FALSE,
     committed |-> FALSE, pushed |-> FALSE, done |-> FALSE]
FreshClone ==
    [work |-> NoTree, index |-> NoTree, head |-> NoTree, branch |-> <<>>,
     base |-> [ver |-> 0, tree |-> NoTree], rebasing |-> FALSE]
SyncOff ==
    /\ remote = [ver |-> 0, tree |-> NoTree]
    /\ repo = [m \in Machines |-> FreshClone]
    /\ local = [m \in Machines |-> [exists |-> FALSE, files |-> NoTree]]
    /\ sp = [m \in Machines |-> "idle"]
    /\ sh = [m \in Machines |-> NoInvocation]
    /\ edits = 0
    /\ runs = 0

\* The installer at rest: no settings file and no command run
NoSettings == [exists |-> FALSE, hooks |-> [e \in {} |-> <<>>]]
StarterFiles == {"session-handoff.md", "MEMORY.md"}
NothingPlaced == [scripts |-> {}, mcp |-> FALSE]
ConfigOff ==
    /\ settings = NoSettings
    /\ ops = <<>>
    /\ starters = [f \in StarterFiles |-> None]
    /\ placed = NothingPlaced

\* No second session: one pipeline, nothing read and nothing running
RaceSessions == {"s1", "s2"}
NoHeld == [cursor |-> 0, totalLines |-> 0, data |-> EmptyData]
RaceOff ==
    /\ pipeline = "dev"
    /\ transcripts = [s \in RaceSessions |-> Absent]
    /\ cursorFile = Absent
    /\ at = [s \in RaceSessions |-> "idle"]
    /\ held = [s \in RaceSessions |-> NoHeld]
    /\ emitted = [s \in RaceSessions |-> <<>>]
    /\ finished = [s \in RaceSessions |-> -1]
    /\ started = 0

\* No second dev-logger: no log of the day and nothing running
NoLogHeld == [existing |-> <<>>, devLines |-> <<>>]
LogOff ==
    /\ logFile = Absent
    /\ logAt = [s \in RaceSessions |-> "idle"]
    /\ logHeld = [s \in RaceSessions |-> NoLogHeld]
    /\ logDone = <<>>
    /\ logRuns = 0

\* No kill so far and no entry logged
NoKill == [at |-> "none", region |-> 0, offset |-> 0, new |-> 0, one |-> TRUE, odd |-> FALSE]
\* No edit of a handoff document so far
NoEdit == [during |-> "none", dir |-> "none", text |-> <<>>]
NotesOff ==
    /\ killed = [q \in Pipelines \X Sessions |-> NoKill]
    /\ wrote = <<>>
    /\ edited = NoEdit

\* No entry point under test
NoCall == [hook |-> "none"]
NoResult == [status |-> "none"]
EntryOff ==
    /\ call = NoCall
    /\ result = NoResult

\* Each script is a process of its own and shares with the other script only
\* the memory directories, so Spec follows one registered script at a time and
\* has the other hooks' single shared effect, MakeDir, as an environment step.
InitInstalled == { {"dev"}, {"ctx"} }

Init ==
    /\ installed \in InitInstalled
    /\ transcript = [s \in Sessions |-> Absent]
    /\ \E c \in InitCursorDocs : cursorDoc = [p \in Pipelines |-> c]
    /\ dirs \in InitDirs
    /\ \E h \in InitHandoffs :
          handoff = [d \in MemDirs |->
                        IF "ctx" \in installed /\ d \in dirs /\ d = GetAutoMemoryDir(dirs)
                        THEN h ELSE Absent]
    /\ devlog = [d \in MemDirs |-> Absent]
    /\ pc = [q \in Procs |-> "idle"]
    /\ loc = [q \in Procs |-> NoLoc]
    /\ extracted = [q \in Procs |-> <<>>]
    /\ sent = [q \in Procs |-> <<>>]
    /\ logged = [d \in MemDirs |-> <<>>]
    /\ SyncOff
    /\ ConfigOff
    /\ RaceOff
    /\ LogOff
    /\ NotesOff
    /\ EntryOff

\* ------------------------------------------------------------- environment

\* The agent runtime appends one line to the session's transcript
AppendLine(s, kind) ==
    /\ Len(IF Exists(transcript[s]) THEN Content(transcript[s]) ELSE <<>>) < MaxLines
    /\ transcript' = [transcript EXCEPT ![s] =
                         File((IF Exists(@) THEN Content(@) ELSE <<>>) \o <<kind>>)]
    /\ UNCHANGED <<installed, cursorDoc, dirs, handoff, devlog, pc, loc, extracted, sent, logged, besideHooks>>

\* Another hook of the project (or the agent itself) creates the memory
\* directory it resolves: mkdirSync(memoryDir, { recursive: true })
MakeDir(d) ==
    /\ d \notin dirs
    /\ d \in {GetMemoryDir(dirs), GetAutoMemoryDir(dirs)}
    /\ dirs' = dirs \cup {d}
    /\ UNCHANGED <<installed, transcript, cursorDoc, handoff, devlog, pc, loc, extracted, sent,
                   logged, besideHooks>>

\* The host stops a hook process at its timeout (or the process is killed)
Kill(q) ==
    /\ pc[q] # "idle"
    /\ pc' = [pc EXCEPT ![q] = "idle"]
    /\ loc' = [loc EXCEPT ![q] = NoLoc]
    /\ UNCHANGED <<installed, transcript, cursorDoc, dirs, handoff, devlog, extracted, sent, logged, besideHooks>>

\* ------------------------------------------------------------------- main

\* main up to `if (!result) return`: getCursor, then getLatestExchange.
\* (A payload that is empty, unparseable or lacks a field returns before this
\* and changes nothing.)
Begin(q) ==
    LET cursor == ReadCursor(q[1], cursorDoc[GetCursorPath(q[1])], q[2])
        ex == GetLatestExchange(transcript[q[2]], cursor)
    IN /\ pc[q] = "idle"
       /\ q[1] \in installed
       /\ IF ex.found
          THEN /\ pc' = [pc EXCEPT ![q] = "extracted"]
               /\ loc' = [loc EXCEPT ![q] =
                             [NoLoc EXCEPT !.cursor = cursor, !.ex = ex,
                                           !.seen = Cardinality(NonBlankIdx(Raw(q[2])))]]
          ELSE UNCHANGED <<pc, loc>>
       /\ UNCHANGED <<installed, transcript, cursorDoc, dirs, handoff, devlog, extracted, sent, logged, besideHooks>>

\* main from setCursor to the await: the cursor write, the pre-filter, the
\* credential lookup and the fetch.  key says whether resolveApiKey finds one.
Advance(q, key) ==
    LET ex == loc[q].ex
    IN /\ pc[q] = "extracted"
       /\ cursorDoc' = [cursorDoc EXCEPT ![GetCursorPath(q[1])] =
                            WriteCursor(q[1], @, q[2], ex.totalLines)]
       /\ extracted' = [extracted EXCEPT ![q] = @ \o ex.newLines]
       /\ IF ~GatePasses(ex)
          THEN /\ pc' = [pc EXCEPT ![q] = "idle"]
               /\ loc' = [loc EXCEPT ![q] = NoLoc]
               /\ sent' = sent
          ELSE IF ~key
          THEN /\ pc' = [pc EXCEPT ![q] = "returned"]
               /\ loc' = [loc EXCEPT ![q] = [NoLoc EXCEPT !.reply = Reply("nokey", <<>>),
                                                          !.seen = loc[q].seen]]
               /\ sent' = sent
          ELSE /\ pc' = [pc EXCEPT ![q] = "await"]
               /\ loc' = [loc EXCEPT ![q] = [NoLoc EXCEPT !.seen = loc[q].seen]]
               /\ sent' = [sent EXCEPT ![q] = @ \o PromptLines(ex.parts)]
       /\ UNCHANGED <<installed, transcript, dirs, handoff, devlog, logged, besideHooks>>

\* The awaited request settles with the classifier's reply
Settle(q, reply) ==
    /\ pc[q] = "await"
    /\ pc' = [pc EXCEPT ![q] = "returned"]
    /\ loc' = [loc EXCEPT ![q].reply = reply]
    /\ UNCHANGED <<installed, transcript, cursorDoc, dirs, handoff, devlog, extracted, sent, logged, besideHooks>>

\* The value main gets from `await callSmallModel(prompt)`
Awaited(reply) ==
    IF reply.kind = "nokey" THEN [threw |-> FALSE, response |-> <<>>]
    ELSE CallSmallModel(reply)

\* dev-logger main after the await, up to the write of the log file
DevContinue(s) ==
    LET q == <<"dev", s>>
        r == Awaited(loc[q].reply)
        memoryDir == GetMemoryDir(dirs)
    IN /\ pc[q] = "returned"
       /\ IF r.threw \/ IsNone(r.response)
          THEN /\ pc' = [pc EXCEPT ![q] = "idle"]
               /\ loc' = [loc EXCEPT ![q] = NoLoc]
               /\ dirs' = dirs
          ELSE /\ dirs' = dirs \cup {memoryDir}
               /\ IF ResponseLines(r.response[1]) = <<>>
                  THEN /\ pc' = [pc EXCEPT ![q] = "idle"]
                       /\ loc' = [loc EXCEPT ![q] = NoLoc]
                  ELSE /\ pc' = [pc EXCEPT ![q] = "write"]
                       /\ loc' = [loc EXCEPT ![q] =
                                     [NoLoc EXCEPT !.lines = ResponseLines(r.response[1]),
                                                   !.dir = memoryDir]]
       /\ UNCHANGED <<installed, transcript, cursorDoc, handoff, devlog, extracted, sent, logged, besideHooks>>

\* dev-logger main: fs.writeFileSync(logFile, existing + entries + '\n').
\* The read of the file (done just before devLines is computed) and the write
\* are synchronous code of one process and are taken as one step.
DevWrite(s) ==
    LET q == <<"dev", s>>
        d == loc[q].dir
    IN /\ pc[q] = "write"
       /\ devlog' = [devlog EXCEPT ![d] = AppendLog(@, loc[q].lines)]
       /\ logged' = [logged EXCEPT ![d] = @ \o Entries(loc[q].lines) \o <<"nl">>]
       /\ pc' = [pc EXCEPT ![q] = "idle"]
       /\ loc' = [loc EXCEPT ![q] = NoLoc]
       /\ UNCHANGED <<installed, transcript, cursorDoc, dirs, handoff, extracted, sent, besideHooks>>

\* context-keeper main after the await, up to the read of session-handoff.md
CtxContinue(s) ==
    LET q == <<"ctx", s>>
        r == Awaited(loc[q].reply)
        memoryDir == GetAutoMemoryDir(dirs)
    IN /\ pc[q] = "returned"
       /\ IF r.threw \/ IsNone(r.response)
          THEN /\ pc' = [pc EXCEPT ![q] = "idle"]
               /\ loc' = [loc EXCEPT ![q] = NoLoc]
               /\ dirs' = dirs
          ELSE IF ResponseLines(r.response[1]) = <<>>
          THEN /\ pc' = [pc EXCEPT ![q] = "idle"]
               /\ loc' = [loc EXCEPT ![q] = NoLoc]
               /\ dirs' = dirs
          ELSE /\ dirs' = dirs \cup {memoryDir}
               /\ pc' = [pc EXCEPT ![q] = "write"]
               /\ loc' = [loc EXCEPT ![q] =
                             [NoLoc EXCEPT !.lines = ResponseLines(r.response[1]),
                                           !.dir = memoryDir]]
       /\ UNCHANGED <<installed, transcript, cursorDoc, handoff, devlog, extracted, sent, logged, besideHooks>>

\* context-keeper main: read session-handoff.md, replace or prepend, write
CtxWrite(s) ==
    LET q == <<"ctx", s>>
        d == loc[q].dir
    IN /\ pc[q] = "write"
       /\ handoff' = [handoff EXCEPT ![d] = WriteHandoff(@, AutoSection(loc[q].lines))]
       /\ pc' = [pc EXCEPT ![q] = "idle"]
       /\ loc' = [loc EXCEPT ![q] = NoLoc]
       /\ UNCHANGED <<installed, transcript, cursorDoc, dirs, devlog, extracted, sent, logged, besideHooks>>

Next ==
    \/ \E s \in Sessions, kind \in LineKinds : AppendLine(s, kind)
    \/ \E d \in MemDirs : MakeDir(d)
    \/ \E q \in Procs : Kill(q)
    \/ \E q \in Procs : Begin(q)
    \/ \E q \in Procs, key \in BOOLEAN : Advance(q, key)
    \/ \E q \in Procs, reply \in Replies : Settle(q, reply)
    \/ \E s \in Sessions : DevContinue(s)
    \/ \E s \in Sessions : DevWrite(s)
    \/ \E s \in Sessions : CtxContinue(s)
    \/ \E s \in Sessions : CtxWrite(s)

Spec == Init /\ [][Next]_vars

\* ================================================================== claims

\* The offset the cursor document holds for a session (0 when it holds none)
OffsetOf(p, sess) ==
    IF Exists(cursorDoc[p]) /\ Content(cursorDoc[p]).valid
          /\ sess \in DOMAIN Content(cursorDoc[p]).data
    THEN Content(cursorDoc[p]).data[sess]
    ELSE 0

Offset(q) == OffsetOf(q[1], q[2])
HasEntry(q) ==
    Exists(cursorDoc[q[1]]) /\ q[2] \in DOMAIN Content(cursorDoc[q[1]]).data

NonBlankCount(s) == Cardinality(NonBlankIdx(Raw(s)))
\* The position of raw line i among the non-blank lines
Rank(raw, i) == Cardinality({j \in NonBlankIdx(raw) : j <= i})

\* ---- C1
C1_Regions ==
    \A q \in Procs :
        LET raw == Raw(q[2])
            k == Offset(q)
        IN /\ Len(extracted[q]) = k
           /\ \A n \in 1..Len(extracted[q]) :
                 /\ extracted[q][n] \in NonBlankIdx(raw)
                 /\ Rank(raw, extracted[q][n]) = n
           /\ pc[q] = "extracted" =>
                 LET ex == loc[q].ex
                 IN /\ loc[q].cursor = k
                    /\ ex.totalLines = k + Len(ex.newLines)
                    /\ \A n \in 1..Len(ex.newLines) :
                          /\ ex.newLines[n] \in NonBlankIdx(raw)
                          /\ Rank(raw, ex.newLines[n]) = k + n
                    /\ \A j \in DOMAIN ex.parts :
                          \E n \in DOMAIN ex.newLines : ex.newLines[n] = ex.parts[j].line

C1_Read ==
    \A q \in Procs :
        (pc[q] = "idle" /\ pc'[q] = "extracted")
            => loc'[q].ex.totalLines = NonBlankCount(q[2])

\* C1: with stored cursor k and M non-blank lines appended, a run builds its
\* text from exactly the non-blank lines k+1..k+M (blank lines never count)
\* and stores k+M, the non-blank line count it read; the regions of the runs
\* that stored a cursor are, in order and without overlap or gap, the first
\* non-blank lines of the transcript up to the stored cursor.
C1_CursorPartition == [](C1_Regions) /\ [][C1_Read]_vars

\* A second run is about to store k+M with k >= 1 and M >= 1
C1_Witness ==
    \E q \in Procs :
        /\ pc[q] = "extracted"
        /\ loc[q].cursor >= 1
        /\ Len(loc[q].ex.newLines) >= 1

\* ---- C2
C2_Bounded == \A q \in Procs : Offset(q) <= NonBlankCount(q[2])

C2_Monotone ==
    \A p \in Pipelines : \A sess \in Sessions \cup {OldSession} :
        OffsetOf(p, sess)' >= OffsetOf(p, sess)

\* C2: the stored offset of every session never decreases from one step to
\* the next and never exceeds the session's count of non-blank lines.
C2_OffsetMonotone == [](C2_Bounded) /\ [][C2_Monotone]_vars

\* A run is about to raise an offset that an earlier run stored, in a
\* cursor document that also holds another session's entry
C2_Witness ==
    \E q \in Procs :
        /\ pc[q] = "extracted"
        /\ Offset(q) >= 1
        /\ loc[q].ex.totalLines > Offset(q)
        /\ OffsetOf(q[1], OldSession) = 1

\* ---- C3
C3_Step ==
    \A q \in Procs :
        (/\ pc[q] = "extracted"
         /\ HasEntry(q)
         /\ loc[q].ex.newLines = <<>>
         /\ pc'[q] # pc[q])
            => /\ pc'[q] = "idle"
               /\ cursorDoc' = cursorDoc
               /\ handoff' = handoff
               /\ devlog' = devlog
               /\ dirs' = dirs

\* C3: a run that finds no line added since the run that stored the cursor
\* ends without calling the classifier, changes no handoff document and no
\* daily log, and leaves the cursor document as it was.
C3_SecondRunIdempotent == [][C3_Step]_vars

\* A run has read a transcript with nothing new after an earlier run
C3_Witness ==
    \E q \in Procs :
        /\ pc[q] = "extracted"
        /\ HasEntry(q)
        /\ Offset(q) >= 1
        /\ loc[q].ex.newLines = <<>>

\* ---- C4
\* C4: whatever fails or is killed, no transcript line is put twice into a
\* prompt of the same pipeline.
C4_SentAtMostOnce ==
    \A q \in Procs :
        \A i, j \in DOMAIN sent[q] : i # j => sent[q][i] # sent[q][j]

\* A later run has extracted new lines after an earlier region was sent
C4_Witness ==
    \E q \in Procs :
        /\ Len(sent[q]) >= 1
        /\ pc[q] = "extracted"
        /\ Len(loc[q].ex.newLines) >= 1
        /\ GatePasses(loc[q].ex)

\* ---- C5
\* After trimming, the text equals NONE or begins with NONE
NoneText(t) == Trim(t) # <<>> /\ Head(Trim(t)) = "NONE"

C5_Step ==
    \A q \in Procs :
        (/\ pc[q] = "returned"
         /\ loc[q].reply.kind = "text"
         /\ NoneText(loc[q].reply.text)
         /\ pc'[q] # pc[q])
            => /\ pc'[q] = "idle"
               /\ handoff' = handoff
               /\ devlog' = devlog
               /\ Offset(q)' = loc[q].seen

\* C5: when the classifier's text, trimmed, is NONE or begins with NONE, the
\* invocation ends with no handoff document and no daily log created or
\* changed, and the session's cursor is the non-blank line count it read.
C5_NoneShortCircuit == [][C5_Step]_vars

\* The classifier has answered a later run with a text that begins with NONE
C5_Witness ==
    \E q \in Procs :
        /\ pc[q] = "returned"
        /\ loc[q].reply.kind = "text"
        /\ NoneText(loc[q].reply.text)
        /\ Trim(loc[q].reply.text) # <<"NONE">>
        /\ loc[q].seen >= 1

\* ---- C6
FailureKinds == {"nokey", "netErr", "notOk", "badJson", "noText"}

C6_Step ==
    \A q \in Procs :
        (/\ pc[q] = "returned"
         /\ loc[q].reply.kind \in FailureKinds
         /\ pc'[q] # pc[q])
            => /\ pc'[q] = "idle"
               /\ handoff' = handoff
               /\ devlog' = devlog
               /\ dirs' = dirs
               /\ Offset(q)' = loc[q].seen

\* C6: with no credential, a network error, a non-success response, an
\* unparseable body or a body without text, main returns as for NONE: no
\* handoff document or daily log is written and the cursor is the new offset.
C6_ClassifierFailure == [][C6_Step]_vars

\* The request of a run that read new lines has failed with a network error
C6_Witness ==
    \E q \in Procs :
        /\ pc[q] = "returned"
        /\ loc[q].reply.kind = "netErr"
        /\ loc[q].seen >= 1

\* ---- C7
\* The classifier call of the invocation has not returned yet
PreReturn(q) == pc[q] \in {"idle", "extracted", "await"}

C7_OriginalStep ==
    \A q \in Procs :
        (PreReturn(q) /\ pc'[q] # pc[q])
            => /\ cursorDoc' = cursorDoc
               /\ handoff' = handoff
               /\ devlog' = devlog

\* C7 as claimed: no step of an invocation taken before its classifier call
\* has returned writes the cursor document, a handoff document or a daily log.
C7_NoWriteBeforeReturn == [][C7_OriginalStep]_vars

C7_AmendedStep ==
    \A q \in Procs :
        (PreReturn(q) /\ pc'[q] # pc[q])
            => /\ handoff' = handoff
               /\ devlog' = devlog
               /\ dirs' = dirs

C7_CursorFirst ==
    \A q \in Procs : pc[q] = "await" => (HasEntry(q) /\ Offset(q) = loc[q].seen)

\* C7 amended: before the classifier call has returned an invocation writes
\* no handoff document, no daily log and no memory directory, but it has
\* already written the cursor: while the call is in flight the stored
\* offset is the non-blank line count the run read.
C7_DocsAfterReturn == [](C7_CursorFirst) /\ [][C7_AmendedStep]_vars

\* A call is in flight and the cursor document already holds the new offset
C7_Witness ==
    \E q \in Procs :
        /\ pc[q] = "await"
        /\ loc[q].seen >= 1
        /\ Offset(q) = loc[q].seen

\* ---- C8
Count(c, tok) == Cardinality({i \in DOMAIN c : c[i] = tok})

\* C8: every handoff document holds at most one start marker and at most
\* one end marker, none without the other, the start before the end.
C8_OneSection ==
    \A d \in MemDirs :
        Exists(handoff[d]) =>
            LET c == Content(handoff[d])
            IN /\ Count(c, StartMarker) <= 1
               /\ Count(c, EndMarker) <= 1
               /\ Count(c, StartMarker) = Count(c, EndMarker)
               /\ Count(c, StartMarker) = 1 => IndexOf(c, StartMarker) < IndexOf(c, EndMarker)

\* ---- C9
HasSection(c) ==
    /\ IndexOf(c, StartMarker) # 0
    /\ IndexOf(c, EndMarker) # 0
    /\ IndexOf(c, StartMarker) < IndexOf(c, EndMarker)

BeforeStart(c) == SubSeq(c, 1, IndexOf(c, StartMarker) - 1)
AfterEnd(c) == SubSeq(c, IndexOf(c, EndMarker) + 1, Len(c))

\* A step that writes the handoff document of context-keeper's invocation
Merges(s) ==
    /\ pc[<<"ctx", s>>] = "write"
    /\ handoff'[loc[<<"ctx", s>>].dir] # handoff[loc[<<"ctx", s>>].dir]

OldDoc(s) == handoff[loc[<<"ctx", s>>].dir]
NewText(s) == Content(handoff'[loc[<<"ctx", s>>].dir])
NewSection(s) == AutoSection(loc[<<"ctx", s>>].lines)

C9_Replace(s) ==
    (Exists(OldDoc(s)) /\ HasSection(Content(OldDoc(s))))
        => NewText(s) = BeforeStart(Content(OldDoc(s))) \o NewSection(s)
                            \o AfterEnd(Content(OldDoc(s)))

C9_OriginalStep ==
    \A s \in Sessions :
        Merges(s) =>
            /\ C9_Replace(s)
            /\ (Exists(OldDoc(s)) /\ ~HasSection(Content(OldDoc(s))))
                  => NewText(s) = NewSection(s) \o <<"nl", "nl">> \o Content(OldDoc(s))

\* C9 as claimed: a merge into a document with a marked section keeps the
\* text before the start marker and the text after the end marker around
\* the new section; a merge into a document without one writes the new
\* section, one blank line, and the whole prior content.
C9_MergeFrame == [][C9_OriginalStep]_vars

C9_AmendedStep ==
    \A s \in Sessions :
        Merges(s) =>
            /\ C9_Replace(s)
            /\ (Exists(OldDoc(s)) /\ ~HasSection(Content(OldDoc(s)))
                    /\ Content(OldDoc(s)) # <<>>)
                  => NewText(s) = NewSection(s) \o <<"nl", "nl">> \o Content(OldDoc(s))
            /\ (~Exists(OldDoc(s)) \/ Content(OldDoc(s)) = <<>>)
                  => NewText(s) = NewSection(s) \o <<"nl">>

\* C9 amended: as claimed, except that the blank line and the prior content
\* follow the new section only when the document is not empty; an empty or
\* absent document becomes the new section and one newline.
C9_MergeFrameNonEmpty == [][C9_AmendedStep]_vars

\* A merge is about to replace the section of a document that has text
\* before the start marker and after the end marker
C9_Witness ==
    \E s \in Sessions :
        /\ pc[<<"ctx", s>>] = "write"
        /\ Exists(OldDoc(s))
        /\ HasSection(Content(OldDoc(s)))
        /\ BeforeStart(Content(OldDoc(s))) # <<>>
        /\ AfterEnd(Content(OldDoc(s))) # <<>>
        /\ NewSection(s) # SubSeq(Content(OldDoc(s)), IndexOf(Content(OldDoc(s)), StartMarker),
                                  IndexOf(Content(OldDoc(s)), EndMarker))

\* ---- C10
IsPrefix(a, b) == Len(a) <= Len(b) /\ SubSeq(b, 1, Len(a)) = a

C10_Log ==
    \A d \in MemDirs :
        IF Exists(devlog[d])
        THEN logged[d] # <<>> /\ Content(devlog[d]) = LogHeader \o logged[d]
        ELSE logged[d] = <<>>

C10_Step ==
    \A d \in MemDirs :
        /\ Exists(devlog[d]) =>
              (Exists(devlog'[d]) /\ IsPrefix(Content(devlog[d]), Content(devlog'[d])))
        /\ (~Exists(devlog[d]) /\ Exists(devlog'[d])) =>
              \E s \in Sessions :
                  /\ pc[<<"dev", s>>] = "write"
                  /\ loc[<<"dev", s>>].dir = d
                  /\ loc[<<"dev", s>>].lines # <<>>

MaxEdits == 2
\* Largest number of sync invocations the host starts.
MaxRuns == 3

\* The content each machine's capture hooks write (a document written on one
\* machine never equals one written on the other)
Writes == [m \in Machines |-> IF m = "m1" THEN "a" ELSE "b"]
\* What git leaves in a file when both sides changed it: text with conflict
\* markers, or the text of a clean textual merge.
Conflicted == "conflicted"
Merged == "merged"
Textual == {"conflict", "clean"}

\* ---------------------------------------------------------------- file sync

SYNC_FILES == {"MEMORY.md", "session-handoff.md"}
\* The names of FileNames that match /^\d{4}-\d{2}-\d{2}\.md$/
DEV_LOG_PATTERN == {"2026-01-01.md"}

\* Mutant of getFilesToSync: every file of the directory is taken
GetFilesToSyncAll(exists, files) ==
    IF ~exists THEN {} ELSE {f \in FileNames : files[f] # None}

\* getFilesToSync(dir)
GetFilesToSync(exists, files) ==
    IF ~exists THEN {}
    ELSE {f \in FileNames : files[f] # None /\ (f \in SYNC_FILES \/ f \in DEV_LOG_PATTERN)}

\* Mutant of copyIfDifferent: an existing destination is never overwritten
CopyIfAbsent(src, dst) ==
    IF src = None THEN [copied |-> FALSE, dst |-> dst]
    ELSE IF dst = None THEN [copied |-> TRUE, dst |-> src]
    ELSE [copied |-> FALSE, dst |-> dst]

\* copyIfDifferent(src, dst): the result and the destination afterwards
CopyIfDifferent(src, dst) ==
    IF src = None THEN [copied |-> FALSE, dst |-> dst]
    ELSE IF dst = None THEN [copied |-> TRUE, dst |-> src]
    ELSE IF src # dst THEN [copied |-> TRUE, dst |-> src]
    ELSE [copied |-> FALSE, dst |-> dst]

\* Mutant of the second loop of syncPush: no name passes the test
RepoOnlyNone(repoFiles, files) == {}

\* syncPush, second loop: the names `if (!files.includes(f))` lets through
RepoOnly(repoFiles, files) == repoFiles \ files

\* Mutant of the copy loop: the whole directory is mirrored
CopyAllMirror(files, from, to) == from

\* The loop `for (const f of files) copyIfDifferent(from/f, to/f)`
CopyAll(files, from, to) ==
    [f \in FileNames |-> IF f \in files THEN CopyIfDifferent(from[f], to[f]).dst ELSE to[f]]

\* --------------------------------------------------------------------- git

\* Paths of the working copy that git does not track
Untracked(r) == {f \in FileNames : r.work[f] # None /\ r.index[f] = None}

\* git's require_clean_work_tree: nothing staged, no tracked path modified
CleanWorkTree(r) ==
    /\ r.index = r.head
    /\ \A f \in FileNames : r.index[f] # None => r.work[f] = r.index[f]

\* The working copy after git moves HEAD from tree `from` to tree `to`
Checkout(work, from, to) ==
    [f \in FileNames |-> IF from[f] # to[f] THEN to[f] ELSE work[f]]

\* Three-way merge of one path: merge base b, ours o, theirs t
Clash(b, o, t) == t # b /\ o # b /\ o # t
Merge3(b, o, t, textual) ==
    IF t = b THEN o
    ELSE IF o = b THEN t
    ELSE IF o = t THEN o
    ELSE IF textual = "clean" /\ b # None /\ o # None /\ t # None THEN Merged
    ELSE Conflicted
Stops(b, o, t, textual) ==
    Clash(b, o, t) /\ ~(textual = "clean" /\ b # None /\ o # None /\ t # None)

\* git rebase: replay the commits `todo` (trees, oldest first; `parent` is the
\* tree of the first one's parent) on top of tree `onto`
RECURSIVE Replay(_, _, _, _)
Replay(parent, onto, todo, textual) ==
    IF todo = <<>>
    THEN [conflict |-> FALSE, tree |-> onto, onto |-> onto, picked |-> <<>>]
    ELSE LET t == Head(todo)
             merged == [f \in FileNames |-> Merge3(parent[f], onto[f], t[f], textual)]
         IN IF \E f \in FileNames : Stops(parent[f], onto[f], t[f], textual)
            THEN [conflict |-> TRUE, tree |-> merged, onto |-> onto, picked |-> <<>>]
            ELSE LET rest == Replay(t, merged, Tail(todo), textual)
                 IN [conflict |-> rest.conflict, tree |-> rest.tree, onto |-> rest.onto,
                     picked |-> IF rest.conflict THEN <<>>
                                ELSE IF merged = onto THEN rest.picked
                                ELSE <<merged>> \o rest.picked]

\* gitPull(repoPath): `git pull --rebase --quiet`, any error caught
GitPull(r, rem, net, textual) ==
    IF ~net \/ r.rebasing \/ ~CleanWorkTree(r) THEN [ok |-> FALSE, repo |-> r]
    ELSE IF r.base.ver = rem.ver THEN [ok |-> TRUE, repo |-> r]
    ELSE IF \E f \in Untracked(r) : rem.tree[f] # None THEN [ok |-> FALSE, repo |-> r]
    ELSE IF r.branch = <<>>
    THEN [ok |-> TRUE,
          repo |-> [r EXCEPT !.head = rem.tree, !.index = rem.tree, !.base = rem,
                             !.work = Checkout(r.work, r.head, rem.tree)]]
    ELSE LET rp == Replay(r.base.tree, rem.tree, r.branch, textual)
         IN IF rp.conflict
            THEN [ok |-> FALSE,
                  repo |-> [r EXCEPT !.rebasing = TRUE, !.head = rp.onto, !.index = rp.tree,
                                     !.work = Checkout(r.work, r.head, rp.tree)]]
            ELSE [ok |-> TRUE,
                  repo |-> [r EXCEPT !.head = rp.tree, !.index = rp.tree, !.base = rem,
                                     !.branch = rp.picked,
                                     !.work = Checkout(r.work, r.head, rp.tree)]]

\* `git add -A`
GitAdd(r) == [r EXCEPT !.index = r.work]

\* Mutant of the staged-diff test: it never reports an empty diff
NothingStagedNever(r) == FALSE

\* `git diff --cached --quiet` exits 0
NothingStaged(r) == r.index = r.head

\* `git commit -m ...`: on the branch, or on the detached HEAD of a rebase
\* that stopped
GitCommit(r) ==
    [r EXCEPT !.head = r.index,
              !.branch = IF r.rebasing THEN @ ELSE Append(@, r.index)]

\* Whether the remote accepts `git push --quiet`
PushAccepted(r, rem, net) == net /\ ~r.rebasing /\ r.base.ver = rem.ver

\* ------------------------------------------------------------------- state

\* The capture hooks at rest, as SyncSpec sees them
HooksOff ==
    /\ installed = {}
    /\ transcript = [s \in Sessions |-> Absent]
    /\ cursorDoc = [p \in Pipelines |-> Absent]
    /\ dirs = {}
    /\ handoff = [d \in MemDirs |-> Absent]
    /\ devlog = [d \in MemDirs |-> Absent]
    /\ pc = [q \in Procs |-> "idle"]
    /\ loc = [q \in Procs |-> NoLoc]
    /\ extracted = [q \in Procs |-> <<>>]
    /\ sent = [q \in Procs |-> <<>>]
    /\ logged = [d \in MemDirs |-> <<>>]

\* What the machines share before the model starts: nothing, or one document
\* every clone already holds and files of the repository's own
OldTree ==
    [NoTree EXCEPT !["MEMORY.md"] = "old", !["notes.txt"] = "repo", !["CLAUDE.md"] = "repo"]
InitTrees == {NoTree, OldTree}

\* A memory directory before the model starts: holding what was synced and a
\* notes.txt and a CLAUDE.md of its own or, on the second machine, missing
SyncedLocal(t) ==
    [exists |-> TRUE, files |-> [t EXCEPT !["notes.txt"] = "old", !["CLAUDE.md"] = "old"]]
MissingLocal == [exists |-> FALSE, files |-> NoTree]

SyncInit ==
    /\ HooksOff
    /\ ConfigOff
    /\ RaceOff
    /\ LogOff
    /\ NotesOff
    /\ EntryOff
    /\ \E t \in InitTrees :
          /\ remote = [ver |-> 0, tree |-> t]
          /\ repo = [m \in Machines |->
                        [FreshClone EXCEPT !.work = t, !.index = t, !.head = t,
                                           !.base = [ver |-> 0, tree |-> t]]]
          /\ \E l2 \in {SyncedLocal(t), MissingLocal} :
                local = [m \in Machines |-> IF m = "m1" THEN SyncedLocal(t) ELSE l2]
    /\ sp = [m \in Machines |-> "idle"]
    /\ sh = [m \in Machines |-> NoInvocation]
    /\ edits = 0
    /\ runs = 0

\* The lifecycle events the script is run on (its header comment)
SyncEvents == {"SessionStart", "Stop", "PreCompact", "SessionEnd"}

\* The value of hookData.hook_type || hookData.type || '' in the payload of an
\* event: the event's name (in either spelling for the session start) when the
\* host sends it in one of the two fields, '' when it sends it in neither
PayloadTypes(event) ==
    {event, ""} \cup (IF event = "SessionStart" THEN {"session_start"} ELSE {})

HookTypes == UNION {PayloadTypes(e) : e \in SyncEvents}

\* ------------------------------------------------------------- environment

\* A capture hook, the agent or the human writes a document of the memory
\* directory (creating the directory when needed), between sync invocations
Edit(m, f) ==
    /\ \A o \in Machines : sp[o] = "idle"
    /\ edits < MaxEdits
    /\ local[m].files[f] # Writes[m]
    /\ edits' = edits + 1
    /\ local' = [local EXCEPT ![m] =
                    [exists |-> TRUE, files |-> [@.files EXCEPT ![f] = Writes[m]]]]
    /\ UNCHANGED <<besideSync, remote, repo, sp, sh, runs>>

\* The host stops the hook at its timeout (20 s), or the process is killed;
\* no history is kept of an invocation that did not end
SyncKill(m) ==
    /\ sp[m] # "idle"
    /\ sp' = [sp EXCEPT ![m] = "idle"]
    /\ sh' = [sh EXCEPT ![m] = NoInvocation]
    /\ UNCHANGED <<besideSync, remote, repo, local, edits, runs>>

\* -------------------------------------------------------------------- main

\* main: parse the payload, find the repository and the memory directory,
\* choose syncPull or syncPush.
\* Invocations run one at a time.  The machines meet only at the remote, which
\* a machine reads in its git pull and writes in its git push, one command
\* each; what two racing pushes leave behind (a commit on a base the remote
\* has moved past) is reached here by a push that did not reach the remote.
Main(m, event, hookType) ==
    /\ \A o \in Machines : sp[o] = "idle"
    /\ runs < MaxRuns
    /\ sp' = [sp EXCEPT ![m] =
                 IF hookType = "SessionStart" \/ hookType = "session_start"
                 THEN "syncPull" ELSE "syncPush"]
    /\ sh' = [sh EXCEPT ![m] =
                 [NoInvocation EXCEPT
                     !.start = (event = "SessionStart"),
                     !.kind = IF hookType = "SessionStart" \/ hookType = "session_start"
                              THEN "pull" ELSE "push",
                     !.dirty0 = {f \in FileNames : repo[m].work[f] # repo[m].head[f]}]]
    /\ runs' = runs + 1
    /\ UNCHANGED <<besideSync, remote, repo, local, edits>>

\* syncPull: gitPull(repoPath), its result ignored
SyncPullGit(m, net, textual) ==
    LET p == GitPull(repo[m], remote, net, textual)
    IN /\ sp[m] = "syncPull"
       /\ repo' = [repo EXCEPT ![m] = p.repo]
       /\ sh' = [sh EXCEPT ![m].pulled = IF p.ok THEN "ok" ELSE "failed",
                           ![m].failed = ~p.ok, ![m].offline = ~net]
       /\ sp' = [sp EXCEPT ![m] = "pullCopy"]
       /\ UNCHANGED <<besideSync, remote, local, edits, runs>>

\* syncPull after gitPull: create the memory directory, copy repository -> local
SyncPullCopy(m) ==
    LET files == GetFilesToSync(TRUE, repo[m].work)
        copy == CopyAll(files, repo[m].work, local[m].files)
    IN /\ sp[m] = "pullCopy"
       /\ local' = [local EXCEPT ![m] = [exists |-> TRUE, files |-> copy]]
       /\ sh' = [sh EXCEPT ![m].wrote = (copy # local[m].files), ![m].done = TRUE]
       /\ sp' = [sp EXCEPT ![m] = "idle"]
       /\ UNCHANGED <<besideSync, remote, repo, edits, runs>>

\* syncPush up to gitPush: return when there is no memory directory; copy
\* local -> repository, then repository -> local for the names only the
\* repository has
SyncPushCopy(m) ==
    LET files == GetFilesToSync(local[m].exists, local[m].files)
        work == CopyAll(files, local[m].files, repo[m].work)
        repoFiles == GetFilesToSync(TRUE, work)
        copy == CopyAll(RepoOnly(repoFiles, files), work, local[m].files)
    IN /\ sp[m] = "syncPush"
       /\ IF ~local[m].exists
          THEN /\ sp' = [sp EXCEPT ![m] = "idle"]
               /\ sh' = [sh EXCEPT ![m].done = TRUE]
               /\ UNCHANGED <<repo, local>>
          ELSE /\ repo' = [repo EXCEPT ![m].work = work]
               /\ local' = [local EXCEPT ![m].files = copy]
               /\ sh' = [sh EXCEPT ![m].differed = (work # repo[m].work),
                                   ![m].same = {f \in files : local[m].files[f] = repo[m].work[f]},
                                   ![m].wrote = (copy # local[m].files)]
               /\ sp' = [sp EXCEPT ![m] = "gitPush"]
       /\ UNCHANGED <<besideSync, remote, edits, runs>>

\* gitPush: gitPull(repoPath), its result ignored
GitPushPull(m, net, textual) ==
    LET p == GitPull(repo[m], remote, net, textual)
    IN /\ sp[m] = "gitPush"
       /\ repo' = [repo EXCEPT ![m] = p.repo]
       /\ sh' = [sh EXCEPT ![m].pulled = IF p.ok THEN "ok" ELSE "failed",
                           ![m].failed = ~p.ok, ![m].offline = ~net]
       /\ sp' = [sp EXCEPT ![m] = "gitAdd"]
       /\ UNCHANGED <<besideSync, remote, local, edits, runs>>

\* gitPush: git add -A; return when nothing is staged; git commit (which may
\* fail: no identity configured, a lock file, the 10 s timeout)
GitPushCommit(m, ok) ==
    LET added == GitAdd(repo[m])
    IN /\ sp[m] = "gitAdd"
       /\ IF NothingStaged(added)
          THEN /\ repo' = [repo EXCEPT ![m] = added]
               /\ sh' = [sh EXCEPT ![m].done = TRUE]
               /\ sp' = [sp EXCEPT ![m] = "idle"]
          ELSE IF ~ok
          THEN /\ repo' = [repo EXCEPT ![m] = added]
               /\ sh' = [sh EXCEPT ![m].failed = TRUE, ![m].done = TRUE]
               /\ sp' = [sp EXCEPT ![m] = "idle"]
          ELSE /\ repo' = [repo EXCEPT ![m] = GitCommit(added)]
               /\ sh' = [sh EXCEPT ![m].committed = TRUE]
               /\ sp' = [sp EXCEPT ![m] = "gitSend"]
       /\ UNCHANGED <<besideSync, remote, local, edits, runs>>

\* gitPush: git push --quiet
GitPushSend(m, net) ==
    /\ sp[m] = "gitSend"
    /\ IF PushAccepted(repo[m], remote, net)
       THEN LET tip == [ver |-> remote.ver + 1, tree |-> repo[m].head]
            IN /\ remote' = tip
               /\ repo' = [repo EXCEPT ![m].base = tip, ![m].branch = <<>>]
               /\ sh' = [sh EXCEPT ![m].pushed = TRUE, ![m].done = TRUE]
       ELSE /\ sh' = [sh EXCEPT ![m].failed = TRUE, ![m].done = TRUE,
                                ![m].offline = @ \/ ~net]
            /\ UNCHANGED <<remote, repo>>
    /\ sp' = [sp EXCEPT ![m] = "idle"]
    /\ UNCHANGED <<besideSync, local, edits, runs>>

\* The documents the capture hooks write
Tracked == {f \in FileNames : f \in SYNC_FILES \/ f \in DEV_LOG_PATTERN}

SyncNext ==
    \/ \E m \in Machines, f \in Tracked : Edit(m, f)
    \/ \E m \in Machines : SyncKill(m)
    \/ \E m \in Machines, event \in SyncEvents :
          \E hookType \in PayloadTypes(event) : Main(m, event, hookType)
    \/ \E m \in Machines, net \in BOOLEAN, textual \in Textual : SyncPullGit(m, net, textual)
    \/ \E m \in Machines : SyncPullCopy(m)
    \/ \E m \in Machines : SyncPushCopy(m)
    \/ \E m \in Machines, net \in BOOLEAN, textual \in Textual : GitPushPull(m, net, textual)
    \/ \E m \in Machines, ok \in BOOLEAN : GitPushCommit(m, ok)
    \/ \E m \in Machines, net \in BOOLEAN : GitPushSend(m, net)

SyncSpec == SyncInit /\ [][SyncNext]_vars

\* ============================================================ claims (sync)

\* The steps of an invocation on machine m
PushCopies(m) == sp[m] = "syncPush" /\ sp'[m] = "gitPush"
PullCopies(m) == sp[m] = "pullCopy" /\ sp'[m] = "idle" /\ sh'[m].done
\* The working copy has a change of path f that git add -A stages
Staged(m, f) == repo[m].work[f] # repo[m].head[f]

\* ---------------------------------------------------------------------- C11
\* C11 as stated: in a push, a tracked document whose local and repository
\* copies are identical is not copied in either direction and contributes no
\* staged change; a copy writes the destination only when the source exists
\* and the destination is absent or differs.
C11_CopyStep ==
    \A m \in Machines : PushCopies(m) =>
        /\ \A f \in Tracked :
              (local[m].files[f] # None /\ local[m].files[f] = repo[m].work[f])
                 => /\ repo'[m].work[f] = repo[m].work[f]
                    /\ local'[m].files[f] = local[m].files[f]
        /\ \A f \in FileNames :
              /\ repo'[m].work[f] # repo[m].work[f]
                    => /\ local[m].files[f] # None
                       /\ repo'[m].work[f] = local[m].files[f]
              /\ local'[m].files[f] # local[m].files[f]
                    => /\ repo[m].work[f] # None
                       /\ local[m].files[f] = None
                       /\ local'[m].files[f] = repo[m].work[f]

C11_NothingStaged ==
    \A m \in Machines : sp[m] = "gitAdd" => \A f \in sh[m].same : ~Staged(m, f)

C11_NoOpForIdentical == [](C11_NothingStaged) /\ [][C11_CopyStep]_vars

\* C11 amended: the document is not copied in either direction, and it is
\* staged only when its repository copy already differed from the last commit
\* as the push started, or when the rebase of the push's pull stopped.
C11_StagedOnlyLeftover ==
    \A m \in Machines : sp[m] = "gitAdd" =>
        \A f \in sh[m].same : Staged(m, f) => (f \in sh[m].dirty0 \/ repo[m].rebasing)

C11_NoCopyForIdentical == [](C11_StagedOnlyLeftover) /\ [][C11_CopyStep]_vars

\* A push has copied a differing document and left an identical one alone
C11_Witness ==
    \E m \in Machines :
        /\ sp[m] = "gitAdd"
        /\ sh[m].differed
        /\ \E f \in sh[m].same : ~Staged(m, f)

\* ---------------------------------------------------------------------- C12
\* C12 as stated: a push creates a commit only if at least one tracked
\* document differed between the memory directory and the repository copy at
\* the start of that push.
C12_CommitOnlyIfDiffered ==
    \A m \in Machines : sh[m].committed => sh[m].differed

\* C12 amended: a push creates a commit only if a tracked document differed at
\* its start, or the working copy already held uncommitted changes (left by an
\* earlier failed or interrupted invocation), or its pull stopped in a rebase.
C12_CommitOnlyIfChanged ==
    \A m \in Machines :
        sh[m].committed => (sh[m].differed \/ sh[m].dirty0 # {} \/ repo[m].rebasing)

\* A push committed although no document differed when it started
C12_Witness ==
    \E m \in Machines : sh[m].committed /\ ~sh[m].differed /\ sh[m].dirty0 # {}

\* ---------------------------------------------------------------------- C13
\* C13 as stated: in a push the remote pull has been performed, and has taken
\* effect on the working copy, before any local document is compared with or
\* copied into the working copy.
C13_Step == \A m \in Machines : PushCopies(m) => sh[m].pulled = "ok"
C13_PullBeforeCopy == [][C13_Step]_vars

\* ---------------------------------------------------------------------- C14
\* C14: syncPull writes a local tracked document if and only if the working
\* copy has it and the local copy is absent or differs; afterwards every
\* tracked document of the working copy is identical locally; documents that
\* exist only locally, untracked files and the repository are left unchanged.
C14_Step ==
    \A m \in Machines : PullCopies(m) =>
        /\ \A f \in FileNames :
              local'[m].files[f] # local[m].files[f]
                 <=> /\ f \in Tracked
                     /\ repo[m].work[f] # None
                     /\ (local[m].files[f] = None \/ local[m].files[f] # repo[m].work[f])
        /\ \A f \in Tracked :
              repo[m].work[f] # None => local'[m].files[f] = repo[m].work[f]
        /\ repo' = repo
        /\ remote' = remote
C14_PullCopy == [][C14_Step]_vars

\* A pull wrote a document and kept a file the repository lacks
C14_Witness ==
    \E m \in Machines :
        /\ sh[m].kind = "pull" /\ sh[m].done /\ sh[m].wrote
        /\ \E f \in FileNames : local[m].files[f] # None /\ repo[m].work[f] = None

\* ---------------------------------------------------------------------- C15
\* C15 as stated: after a push, every tracked document that was in the working
\* copy but not in the memory directory has been copied into the memory
\* directory, also when the memory directory does not exist yet.
OnlyInRepo(m) ==
    {f \in Tracked : repo[m].work[f] # None /\ local[m].files[f] = None}
C15_Step ==
    \A m \in Machines :
        (sp[m] = "syncPush" /\ sp'[m] # "syncPush" /\ sh'[m].kind = "push")
           => \A f \in OnlyInRepo(m) : local'[m].files[f] = repo[m].work[f]
C15_RepoOnlyCopied == [][C15_Step]_vars

\* C15 amended: the same, when the memory directory exists as the push starts;
\* a push on a machine without one copies nothing.
C15_AmendedStep ==
    \A m \in Machines :
        (sp[m] = "syncPush" /\ sp'[m] # "syncPush" /\ sh'[m].kind = "push")
           => IF local[m].exists
              THEN \A f \in OnlyInRepo(m) : local'[m].files[f] = repo[m].work[f]
              ELSE local' = local /\ repo' = repo
C15_RepoOnlyCopiedIfDir == [][C15_AmendedStep]_vars

\* A push brought a document of the repository into the memory directory
C15_Witness ==
    \E m \in Machines :
        /\ sh[m].kind = "push" /\ sh[m].wrote
        /\ \E f \in Tracked : local[m].files[f] = "old"

\* ---------------------------------------------------------------------- C16
\* C16 as stated: when two machines hold different content for a tracked
\* document and each runs a push, one after the other, both pushes reach the
\* remote and the remote ends with the whole-file content of the later push.
C16_Step ==
    \A m \in Machines :
        (sp[m] = "gitSend" /\ sp'[m] = "idle" /\ sh'[m].done /\ ~sh'[m].offline)
           => /\ sh'[m].pushed
              /\ \A f \in Tracked :
                    local[m].files[f] # None => remote'.tree[f] = local[m].files[f]
C16_LastPushWins == [][C16_Step]_vars

\* ---------------------------------------------------------------------- C17
\* C17 as stated: once the remote is reachable again, a later push delivers
\* the changes, a commit created earlier but not pushed included, to the
\* remote, even when no document changed since the failed invocation.
PushEnds(m) ==
    \/ sp[m] = "gitSend" /\ sp'[m] = "idle" /\ sh'[m].done
    \/ sp[m] = "gitAdd" /\ sp'[m] = "idle" /\ sh'[m].done /\ NothingStaged(GitAdd(repo[m]))
C17_Step ==
    \A m \in Machines :
        (PushEnds(m) /\ ~sh'[m].offline /\ ~repo[m].rebasing) => repo'[m].branch = <<>>
C17_RetryDelivers == [][C17_Step]_vars

\* ---------------------------------------------------------------------- C18
\* C18 as stated: when a git command of a sync invocation fails, that
\* invocation creates or modifies no document of the memory directory.
C18_NoWriteOnGitFailure ==
    \A m \in Machines : (sh[m].done /\ sh[m].failed) => ~sh[m].wrote

\* ========================================================= hook configuration
\* What `nlc install` (registerHooks), `nlc sync` and `nlc uninstall` do to the
\* hooks of the tool's settings file.

\* Bound: the number of installer commands in one behaviour
MaxOps == 3

\* A hook command is `"<node>" "<path>/<script>"`.  It is kept as the pieces of
\* its script name that the installer's includes() tests tell apart, so that
\* includes('nlc-') is a test on the text and not on what registered it.
Script(name) == <<"nlc-", name, ".js">>
SessionStartJs == Script("session-start")
MemoryCheckJs == Script("memory-check")
DevLoggerJs == Script("dev-logger")
ContextKeeperJs == Script("context-keeper")
DispatchGateJs == Script("dispatch-gate")
SyncCommand == Script("memory-sync")
ExtractorCommand == <<"claude-code-memory/dist/", "extractor", ".js">>
UserCommand == <<"notify.sh">>

\* command.includes(part)
Includes(command, part) ==
    \E i \in 0..(Len(command) - Len(part)) :
        \A j \in 1..Len(part) : command[i + j] = part[j]

\* hookMap, and the events the tool supports (tool.hooks.events of Claude Code)
HookMap ==
    [SessionStart |-> <<SessionStartJs>>,
     UserPromptSubmit |-> <<MemoryCheckJs>>,
     Stop |-> <<DevLoggerJs, ContextKeeperJs>>,
     PreToolUse |-> <<DispatchGateJs>>]
ToolEvents == {"SessionStart", "UserPromptSubmit", "Stop", "PreCompact", "SessionEnd"}
ExtractorEvents == {"Stop", "PreCompact", "SessionEnd"}

\* settings.hooks[event], and settings.hooks with one event set.  A hook group
\* is the sequence of its commands.
GroupsOf(h, e) == IF e \in DOMAIN h THEN h[e] ELSE <<>>
Put(h, e, gs) == [k \in DOMAIN h \cup {e} |-> IF k = e THEN gs ELSE h[k]]

\* groups.some(g => g.hooks?.some(h => h.command?.includes(part)))
Registered(gs, part) ==
    \E i \in DOMAIN gs : \E j \in DOMAIN gs[i] : Includes(gs[i][j], part)

\* groups.filter(g => !g.hooks?.some(h => h.command?.includes(part)))
Without(gs, part) ==
    SelectSeq(gs, LAMBDA g : ~\E j \in DOMAIN g : Includes(g[j], part))

\* registerHooks, the memory-mcp extractor on one event
AddExtractor(gs) ==
    IF Registered(gs, <<"extractor">>) THEN gs ELSE Append(gs, <<ExtractorCommand>>)

\* registerHooks, the body of the loop over one event's scripts
RegisterScript(gs, script, force) ==
    IF Registered(gs, script) /\ ~force THEN gs
    ELSE Append(IF Registered(gs, script) THEN Without(gs, <<"nlc-">>) ELSE gs,
                <<script>>)

RECURSIVE RegisterScripts(_, _, _)
RegisterScripts(gs, scripts, force) ==
    IF scripts = <<>> THEN gs
    ELSE RegisterScripts(RegisterScript(gs, Head(scripts), force), Tail(scripts), force)

\* registerHooks: the hooks it writes.  mcp says whether findMemoryMcpExtractor
\* finds the extractor.
RegisterHooks(h, force, mcp) ==
    LET exEvents == IF mcp THEN ExtractorEvents \cap ToolEvents ELSE {}
        h1 == [e \in DOMAIN h \cup exEvents |->
                  IF e \in exEvents THEN AddExtractor(GroupsOf(h, e)) ELSE h[e]]
        events == DOMAIN HookMap \cap ToolEvents
    IN [e \in DOMAIN h1 \cup events |->
           IF e \in events THEN RegisterScripts(GroupsOf(h1, e), HookMap[e], force)
           ELSE h1[e]]

\* `nlc sync`, one event: the command goes into the event's FIRST group, at
\* its front (unshift) or at its end (push).  ok is false where the code
\* throws (no first group) and the settings are then not written.
AddSync(h, e, front) ==
    LET gs == IF e \in DOMAIN h THEN h[e] ELSE << <<>> >>
    IN IF gs = <<>> THEN [ok |-> FALSE, hooks |-> h]
       ELSE IF \E j \in DOMAIN gs[1] : Includes(gs[1][j], <<"nlc-", "memory-sync">>)
       THEN [ok |-> TRUE, hooks |-> Put(h, e, gs)]
       ELSE [ok |-> TRUE,
             hooks |-> Put(h, e, [gs EXCEPT ![1] = IF front THEN <<SyncCommand>> \o @
                                                  ELSE Append(@, SyncCommand)])]

\* `nlc sync`: the hooks it writes
RegisterSync(h) ==
    LET start == AddSync(h, "SessionStart", TRUE)
        stop == AddSync(start.hooks, "Stop", FALSE)
    IN IF start.ok /\ stop.ok THEN stop.hooks ELSE h

\* `nlc uninstall`: the hooks it writes
RemoveHooks(h) ==
    LET kept == [e \in DOMAIN h |-> Without(h[e], <<"nlc-">>)]
    IN [e \in {k \in DOMAIN h : kept[k] # <<>>} |-> kept[e]]

\* The settings file before the first command: none, or the user's own file
\* with or without a hook of theirs on Stop and on SessionStart, or a file in
\* which only nlc-context-keeper.js is registered (the others taken out by hand)
InitSettings ==
    {NoSettings} \cup
    { [exists |-> TRUE, hooks |-> [e \in evs |-> << <<UserCommand>> >>]] :
         evs \in SUBSET {"SessionStart", "Stop"} } \cup
    { [exists |-> TRUE, hooks |-> [e \in {"Stop"} |-> << <<ContextKeeperJs>> >>]] }

ConfigInit ==
    /\ HooksOff
    /\ SyncOff
    /\ RaceOff
    /\ LogOff
    /\ NotesOff
    /\ EntryOff
    /\ settings \in InitSettings
    /\ ops = <<>>
    /\ starters \in [StarterFiles -> {None, "mine"}]
    /\ placed = NothingPlaced

\* createStarterFiles: each starter the package ships (templates/starters) is
\* copied to starterDir unless the file is there and force is not set
CreateStarterFiles(files, force, shipped) ==
    [f \in StarterFiles |->
        IF f \notin shipped THEN files[f]
        ELSE IF files[f] # None /\ ~force THEN files[f]
        ELSE "starter"]

\* installHookScripts: the scripts it leaves in scriptsDir (written, or kept
\* when they are there and force is not set)
InstalledScripts ==
    {"session-start", "memory-check", "dev-logger", "context-keeper", "dispatch-gate"}

\* nlc uninstall: the scripts it removes
UninstalledScripts == {"session-start", "memory-check", "dev-logger"}

\* InstallService.run: step 1 (the scripts), step 2 (the hooks), step 5 (the
\* starter files) and step 6 (the MCP entry); the other steps leave these
\* alone.  shipped is the starters the package holds.
Run(force, mcp, shipped) ==
    /\ settings' = [exists |-> TRUE, hooks |-> RegisterHooks(settings.hooks, force, mcp)]
    /\ starters' = CreateStarterFiles(starters, force, shipped)
    /\ placed' = [scripts |-> placed.scripts \cup InstalledScripts, mcp |-> TRUE]

\* nlc install [--force]
Install(force, mcp, shipped) ==
    /\ Len(ops) < MaxOps
    /\ Run(force, mcp, shipped)
    /\ ops' = Append(ops, [cmd |-> "install", force |-> force, mcp |-> mcp])
    /\ UNCHANGED besideConfig

\* nlc update: run({ force: true, skipRules: true })
Update(mcp, shipped) ==
    /\ Len(ops) < MaxOps
    /\ Run(TRUE, mcp, shipped)
    /\ ops' = Append(ops, [cmd |-> "update", force |-> TRUE, mcp |-> mcp])
    /\ UNCHANGED besideConfig

\* nlc sync: registers the hook only in a settings file that exists
SyncSetup ==
    /\ Len(ops) < MaxOps
    /\ settings' = IF settings.exists
                   THEN [settings EXCEPT !.hooks = RegisterSync(@)]
                   ELSE settings
    /\ ops' = Append(ops, [cmd |-> "sync", force |-> FALSE, mcp |-> FALSE])
    /\ UNCHANGED <<starters, placed, besideConfig>>

\* nlc uninstall
Uninstall ==
    /\ Len(ops) < MaxOps
    /\ settings' = IF settings.exists
                   THEN [settings EXCEPT !.hooks = RemoveHooks(@)]
                   ELSE settings
    /\ ops' = Append(ops, [cmd |-> "uninstall", force |-> FALSE, mcp |-> FALSE])
    /\ placed' = [scripts |-> placed.scripts \ UninstalledScripts, mcp |-> FALSE]
    /\ UNCHANGED <<starters, besideConfig>>

ConfigNext ==
    \/ \E force \in BOOLEAN, mcp \in BOOLEAN, shipped \in SUBSET StarterFiles :
          Install(force, mcp, shipped)
    \/ \E mcp \in BOOLEAN, shipped \in SUBSET StarterFiles : Update(mcp, shipped)
    \/ SyncSetup
    \/ Uninstall

ConfigSpec == ConfigInit /\ [][ConfigNext]_vars

\* ------------------------------------------------------------ claims (config)

\* The commands of an event in the order of the configuration: group by group
RECURSIVE Flatten(_)
Flatten(gs) == IF gs = <<>> THEN <<>> ELSE Head(gs) \o Flatten(Tail(gs))
HookOrder(e) == Flatten(GroupsOf(settings.hooks, e))
Places(e, command) == {i \in DOMAIN HookOrder(e) : HookOrder(e)[i] = command}
Precedes(e, a, b) == \A i \in Places(e, a), j \in Places(e, b) : i < j

\* The last two commands were an install and then a sync setup
InstalledThenSync ==
    /\ Len(ops) >= 2
    /\ ops[Len(ops) - 1].cmd = "install"
    /\ ops[Len(ops)].cmd = "sync"

\* C19: in the configuration produced by install followed by sync setup, the
\* memory-sync command is registered on Stop after both nlc-dev-logger.js and
\* nlc-context-keeper.js, and on SessionStart before nlc-session-start.js.
C19_SyncBrackets ==
    InstalledThenSync =>
        /\ Places("Stop", SyncCommand) # {}
        /\ Precedes("Stop", DevLoggerJs, SyncCommand)
        /\ Precedes("Stop", ContextKeeperJs, SyncCommand)
        /\ Places("SessionStart", SyncCommand) # {}
        /\ Precedes("SessionStart", SyncCommand, SessionStartJs)


\* ---- C39
LastInstalls == ops # <<>> /\ ops[Len(ops)].cmd \in {"install", "update"}
SupportedEvents == DOMAIN HookMap \cap ToolEvents

\* C39: after an install or update, forced or not, from whatever settings,
\* every script of the hook map whose event the tool supports is registered
\* exactly once under its event.
C39_RegisteredOnce ==
    LastInstalls =>
        \A e \in SupportedEvents : \A i \in DOMAIN HookMap[e] :
            Cardinality(Places(e, HookMap[e][i])) = 1

\* What does hold: no script of the hook map is ever registered twice under
\* its event, and after an install that is not forced none is missing.
C39_NeverTwice ==
    \A e \in SupportedEvents : \A i \in DOMAIN HookMap[e] :
        /\ Cardinality(Places(e, HookMap[e][i])) <= 1
        /\ LastInstalls /\ ~ops[Len(ops)].force => Places(e, HookMap[e][i]) # {}

\* ---- C27
\* An invocation starts
Starts(m) == sp[m] = "idle" /\ sp'[m] # "idle"

C27_Step ==
    \A m \in Machines :
        /\ Starts(m) => (sp'[m] = "syncPull" <=> sh'[m].start)
        /\ PushCopies(m) => ~sh[m].start
        /\ sh'[m].committed => ~sh'[m].start

\* C27: the memory-sync hook pulls exactly when the lifecycle event that ran it
\* is the session start, and pushes when the event is Stop, PreCompact or
\* SessionEnd; an invocation run by the session start never copies local
\* documents into the repository and never commits.
C27_PullOnSessionStart == [][C27_Step]_vars

\* What does hold: an invocation that pulls was run by the session start
C27_TypedStep ==
    \A m \in Machines :
        Starts(m) /\ sh'[m].kind = "pull" => sh'[m].start
C27_PullOnlyOnSessionStart == [][C27_TypedStep]_vars


\* ---- C28
\* The names sync may copy: MEMORY.md, session-handoff.md and YYYY-MM-DD.md
SyncedNames == {"MEMORY.md", "session-handoff.md", "2026-01-01.md"}

\* A step of a copy phase: of syncPull after its git pull, or of syncPush
\* before its git commands
CopyPhase(m) == sp[m] \in {"pullCopy", "syncPush"} /\ sp'[m] # sp[m]

C28_Step ==
    \A m \in Machines :
        CopyPhase(m) =>
            \A f \in FileNames \ SyncedNames :
                /\ local'[m].files[f] = local[m].files[f]
                /\ repo'[m].work[f] = repo[m].work[f]

InPush(m) == sp[m] \in {"syncPush", "gitPush", "gitAdd", "gitSend"}

C38_Step ==
    \A m \in Machines : \A f \in Tracked :
        local[m].files[f] # None =>
            /\ InPush(m) => local'[m].files[f] = local[m].files[f]
            /\ PushCopies(m) => repo'[m].work[f] = local[m].files[f]

\* C38: no step of a push changes a tracked document the memory directory
\* already holds, and after the copy phase of the push the working copy of the
\* repository holds the local content of each such document, also where the
\* two differed (local wins).
C38_LocalWins == [][C38_Step]_vars

\* A push has overwritten a differing MEMORY.md of the working copy with the
\* local one
C38_Witness ==
    \E m \in Machines :
        /\ sp[m] = "gitPush"
        /\ sh[m].differed
        /\ local[m].files["MEMORY.md"] = Writes[m]
        /\ repo[m].work["MEMORY.md"] = Writes[m]
        /\ repo[m].head["MEMORY.md"] \notin {None, Writes[m]}

\* ---- C32
C32_Step ==
    \A m \in Machines :
        /\ PushCopies(m) /\ local[m].files["CLAUDE.md"] # None =>
              repo'[m].work["CLAUDE.md"] = local[m].files["CLAUDE.md"]
        /\ PullCopies(m) /\ repo[m].work["CLAUDE.md"] # None =>
              local'[m].files["CLAUDE.md"] = repo[m].work["CLAUDE.md"]

\* C32: sync mirrors CLAUDE.md as it does MEMORY.md, session-handoff.md and
\* the daily logs: a CLAUDE.md of the local memory directory is in the
\* repository after the copy phase of a push, and one of the repository is in
\* the local memory directory after the copy phase of a pull.
C32_ClaudeMdMirrored == [][C32_Step]_vars


\* ---- C30
\* The step is an `nlc update`
Updates == Len(ops') = Len(ops) + 1 /\ ops'[Len(ops')].cmd = "update"

C30_Step ==
    Updates /\ (\A f \in StarterFiles : starters[f] # None) => starters' = starters

\* C30: `nlc update` on a machine that already has session-handoff.md and
\* MEMORY.md in the project's memory directory leaves the content of both
\* files unchanged.
C30_UpdateKeepsMemory == [][C30_Step]_vars


\* ---- C31
\* The last two commands were an install and then an uninstall
InstalledThenUninstalled ==
    /\ Len(ops) >= 2
    /\ ops[Len(ops) - 1].cmd = "install"
    /\ ops[Len(ops)].cmd = "uninstall"

\* The commands install registers: the scripts of the hook map and the
\* memory-mcp extractor
InstallCommands ==
    UNION {{HookMap[e][i] : i \in DOMAIN HookMap[e]} : e \in DOMAIN HookMap}
        \cup {ExtractorCommand}

AllCommands == UNION {{HookOrder(e)[i] : i \in DOMAIN HookOrder(e)} : e \in DOMAIN settings.hooks}

C31_Clean ==
    InstalledThenUninstalled =>
        /\ placed.scripts \cap InstalledScripts = {}
        /\ AllCommands \cap InstallCommands = {}
        /\ ~placed.mcp

C31_Step ==
    Len(ops') = Len(ops) + 1 /\ ops'[Len(ops')].cmd = "uninstall" => starters' = starters

\* C31: after install followed by uninstall no hook script install placed is
\* left in the scripts directory, no hook entry install registered is left in
\* the settings file, the NLC MCP entry is gone, and uninstall has changed no
\* memory file.
C31_UninstallUndoesInstall == [](C31_Clean) /\ [][C31_Step]_vars

\* What does hold: the three scripts uninstall names and every command that
\* holds 'nlc-' are gone, the MCP entry is gone and the memory files are kept
C31_Partly ==
    InstalledThenUninstalled =>
        /\ placed.scripts \cap UninstalledScripts = {}
        /\ \A c \in AllCommands : ~Includes(c, <<"nlc-">>)
        /\ ~placed.mcp

\* ================================================= two sessions, one cursor file
\* Two sessions of one project run the same capture hook at the same time.
\* Each hook process is a process of the operating system: its file reads and
\* writes interleave with the other's, so setCursor is taken apart into the
\* read of the document, the truncation that starts writeFileSync and the
\* write of the new content.

\* Bounds: the raw lines a transcript grows to, and the invocations started
MaxRaceLines == 2
MaxRaceRuns == 3

\* A file cut to length 0 by a write in progress: JSON.parse fails on it
Truncated == File([valid |-> FALSE, data |-> EmptyData])

\* setCursor / setContextCursor, `let data = {}; if (exists) try { data =
\* JSON.parse(read) } catch {}`
CursorData(doc) ==
    IF Exists(doc) /\ Content(doc).valid THEN Content(doc).data ELSE EmptyData

\* Mutant of the write: the entries read are kept and the own one is dropped
StoreCursorStale(data, sessionId, line) == File([valid |-> TRUE, data |-> data])

\* setCursor / setContextCursor, `data[sessionId] = line; writeFileSync(...)`
StoreCursor(data, sessionId, line) ==
    File([valid |-> TRUE,
          data |-> [k \in DOMAIN data \cup {sessionId} |->
                       IF k = sessionId THEN line ELSE data[k]]])

RaceInit ==
    /\ HooksOff
    /\ SyncOff
    /\ ConfigOff
    /\ LogOff
    /\ NotesOff
    /\ EntryOff
    /\ pipeline \in Pipelines
    /\ transcripts = [s \in RaceSessions |-> Absent]
    /\ cursorFile \in InitCursorDocs
    /\ at = [s \in RaceSessions |-> "idle"]
    /\ held = [s \in RaceSessions |-> NoHeld]
    /\ emitted = [s \in RaceSessions |-> <<>>]
    /\ finished = [s \in RaceSessions |-> -1]
    /\ started = 0

\* The agent runtime appends one line to the session's transcript
RaceAppend(s, kind) ==
    /\ Len(IF Exists(transcripts[s]) THEN Content(transcripts[s]) ELSE <<>>) < MaxRaceLines
    /\ transcripts' = [transcripts EXCEPT ![s] =
                          File((IF Exists(@) THEN Content(@) ELSE <<>>) \o <<kind>>)]
    /\ UNCHANGED <<pipeline, cursorFile, at, held, emitted, finished, started, besideRace>>

\* main up to `if (!result) return`: getCursor, then getLatestExchange
RaceBegin(s) ==
    LET cursor == ReadCursor(pipeline, cursorFile, s)
        ex == GetLatestExchange(transcripts[s], cursor)
    IN /\ at[s] = "idle"
       /\ started < MaxRaceRuns
       /\ started' = started + 1
       /\ IF ex.found
          THEN /\ at' = [at EXCEPT ![s] = "read"]
               /\ held' = [held EXCEPT ![s] = [NoHeld EXCEPT !.cursor = cursor, !.totalLines = ex.totalLines]]
               /\ emitted' = [emitted EXCEPT ![s] = @ \o ex.newLines]
          ELSE UNCHANGED <<at, held, emitted>>
       /\ UNCHANGED <<pipeline, transcripts, cursorFile, finished, besideRace>>

\* setCursor: the document is read and parsed
SetRead(s) ==
    /\ at[s] = "read"
    /\ held' = [held EXCEPT ![s].data = CursorData(cursorFile)]
    /\ at' = [at EXCEPT ![s] = "write"]
    /\ UNCHANGED <<pipeline, transcripts, cursorFile, emitted, finished, started, besideRace>>

\* setCursor: writeFileSync opens the document, which cuts it to length 0
SetTruncate(s) ==
    /\ at[s] = "write"
    /\ cursorFile' = Truncated
    /\ at' = [at EXCEPT ![s] = "fill"]
    /\ UNCHANGED <<pipeline, transcripts, held, emitted, finished, started, besideRace>>

\* setCursor: writeFileSync writes the new content.  What main does after it
\* (pre-filter, classifier, log or handoff) does not touch the cursor document.
SetFill(s) ==
    /\ at[s] = "fill"
    /\ cursorFile' = StoreCursor(held[s].data, s, held[s].totalLines)
    /\ finished' = [finished EXCEPT ![s] = held[s].totalLines]
    /\ at' = [at EXCEPT ![s] = "idle"]
    /\ held' = [held EXCEPT ![s] = NoHeld]
    /\ UNCHANGED <<pipeline, transcripts, emitted, started, besideRace>>

RaceNext ==
    \/ \E s \in RaceSessions, kind \in {"user", "blank"} : RaceAppend(s, kind)
    \/ \E s \in RaceSessions : RaceBegin(s)
    \/ \E s \in RaceSessions : SetRead(s)
    \/ \E s \in RaceSessions : SetTruncate(s)
    \/ \E s \in RaceSessions : SetFill(s)

RaceSpec == RaceInit /\ [][RaceNext]_vars

\* -------------------------------------------------------------- claims (race)

\* No transcript line was extracted twice
NoRepeat(seq) == \A i, j \in DOMAIN seq : i # j => seq[i] # seq[j]

\* Both sessions have run and none is running
BothFinished == \A s \in RaceSessions : at[s] = "idle" /\ finished[s] >= 0

\* C20: when invocations of two sessions interleave their cursor steps in any
\* order, no session's stored offset is lost or decreased: after both have
\* finished, each session's offset in the cursor document is the non-blank line
\* count its last invocation stored, and no session re-emits consumed lines.
C20_NoLostOffset ==
    /\ BothFinished =>
          \A s \in RaceSessions : ReadCursor(pipeline, cursorFile, s) = finished[s]
    /\ \A s \in RaceSessions : NoRepeat(emitted[s])

\* ================================================ two dev-loggers, one daily log
\* The dev-logger hooks of two sessions of one project reach the daily log at
\* the same time.  main reads the whole log, adds its entries and writes the
\* whole log back; as in setCursor, the write is the truncation that opens the
\* file and then the new content.

\* Bound: the invocations that get entries from the classifier
MaxLogRuns == 3

\* The classifier's lines of a session's invocation (after ResponseLines)
DevLines == [s \in RaceSessions |-> IF s = "s1" THEN << <<"w1">> >> ELSE << <<"w2">>, <<"w3">> >>]

\* The log of the day before the two invocations: none, or an earlier entry
OldEntry == <<"time", "w0", "nl">>
InitLogs == { Absent, File(LogHeader \o OldEntry) }

\* main: `existing` after the read (the file's text, or the header of a new log)
ReadLog(file) == IF Exists(file) THEN Content(file) ELSE LogHeader

LogInit ==
    /\ HooksOff
    /\ SyncOff
    /\ ConfigOff
    /\ RaceOff
    /\ NotesOff
    /\ EntryOff
    /\ logFile \in InitLogs
    /\ logAt = [s \in RaceSessions |-> "idle"]
    /\ logHeld = [s \in RaceSessions |-> NoLogHeld]
    /\ logDone = IF Exists(logFile) THEN <<OldEntry>> ELSE <<>>
    /\ logRuns = 0

\* main after the classifier returned entries: existsSync / readFileSync of the
\* log, then devLines
LogRead(s) ==
    /\ logAt[s] = "idle"
    /\ logRuns < MaxLogRuns
    /\ logRuns' = logRuns + 1
    /\ logHeld' = [logHeld EXCEPT ![s] = [existing |-> ReadLog(logFile),
                                          devLines |-> DevLines[s]]]
    /\ logAt' = [logAt EXCEPT ![s] = "write"]
    /\ UNCHANGED <<logFile, logDone, besideLog>>

\* main: writeFileSync opens the log, which cuts it to length 0
LogTruncate(s) ==
    /\ logAt[s] = "write"
    /\ logFile' = File(<<>>)
    /\ logAt' = [logAt EXCEPT ![s] = "fill"]
    /\ UNCHANGED <<logHeld, logDone, logRuns, besideLog>>

\* main: writeFileSync writes existing + entries + '\n'
LogFill(s) ==
    /\ logAt[s] = "fill"
    /\ logFile' = AppendLog(File(logHeld[s].existing), logHeld[s].devLines)
    /\ logDone' = Append(logDone, Entries(logHeld[s].devLines) \o <<"nl">>)
    /\ logAt' = [logAt EXCEPT ![s] = "idle"]
    /\ logHeld' = [logHeld EXCEPT ![s] = NoLogHeld]
    /\ UNCHANGED <<logRuns, besideLog>>

LogNext ==
    \/ \E s \in RaceSessions : LogRead(s)
    \/ \E s \in RaceSessions : LogTruncate(s)
    \/ \E s \in RaceSessions : LogFill(s)

LogSpec == LogInit /\ [][LogNext]_vars

\* --------------------------------------------------------------- claims (log)

\* C21: under any interleaving of two dev-logger invocations of different
\* sessions, the daily log after both finish holds the entries of every
\* finished invocation and every entry written earlier, after its header.
C21_BothKept ==
    (\A s \in RaceSessions : logAt[s] = "idle") /\ logRuns > 0 =>
        /\ Exists(logFile)
        /\ IsPrefix(LogHeader, Content(logFile))
        /\ \A i \in DOMAIN logDone : Includes(Content(logFile), logDone[i])

\* ============================================================ kill and rerun
\* Spec with its kills and log writes noted: the same steps, and the history
\* variables killed and wrote.

\* At most one start and one end marker, paired and in order
SingleSection(f) ==
    Exists(f) =>
        LET c == Content(f)
        IN /\ Count(c, StartMarker) <= 1
           /\ Count(c, EndMarker) <= 1
           /\ Count(c, StartMarker) = Count(c, EndMarker)
           /\ Count(c, StartMarker) = 1 => IndexOf(c, StartMarker) < IndexOf(c, EndMarker)

\* The raw line a process's region ends at: the last line it extracted
RegionEnd(q) ==
    LET all == extracted[q] \o (IF pc[q] = "extracted" THEN loc[q].ex.newLines ELSE <<>>)
    IN IF all = <<>> THEN 0 ELSE all[Len(all)]

\* The offset an invocation stores: the non-blank lines of the transcript it read
NewOffset(q) == IF pc[q] = "write" THEN Len(extracted[q]) ELSE loc[q].seen

\* Kill, noting the position of the process, the region's end, the stored
\* offset, the invocation's new offset, whether the handoff documents had one
\* section each, and the parity of the kills so far
KillNoted(q) ==
    /\ pc[q] # "idle"
    /\ pc' = [pc EXCEPT ![q] = "idle"]
    /\ loc' = [loc EXCEPT ![q] = NoLoc]
    /\ killed' = [killed EXCEPT ![q] =
                     [at |-> pc[q], region |-> RegionEnd(q),
                      offset |-> OffsetOf(q[1], q[2]), new |-> NewOffset(q),
                      one |-> \A d \in MemDirs : SingleSection(handoff[d]),
                      odd |-> ~killed[q].odd]]
    /\ UNCHANGED <<installed, transcript, cursorDoc, dirs, handoff, devlog, extracted, sent,
                   logged, wrote, edited, syncVars, configVars, raceVars, logVars, entryVars>>

\* DevWrite, noting the region whose entries it logs
DevWriteNoted(s) ==
    LET q == <<"dev", s>>
        d == loc[q].dir
    IN /\ pc[q] = "write"
       /\ devlog' = [devlog EXCEPT ![d] = AppendLog(@, loc[q].lines)]
       /\ logged' = [logged EXCEPT ![d] = @ \o Entries(loc[q].lines) \o <<"nl">>]
       /\ pc' = [pc EXCEPT ![q] = "idle"]
       /\ loc' = [loc EXCEPT ![q] = NoLoc]
       /\ wrote' = Append(wrote, <<s, RegionEnd(q)>>)
       /\ UNCHANGED <<installed, transcript, cursorDoc, dirs, handoff, extracted, sent,
                      killed, edited, syncVars, configVars, raceVars, logVars, entryVars>>

KillNext ==
    \/ \E s \in Sessions, kind \in LineKinds : AppendLine(s, kind)
    \/ \E d \in MemDirs : MakeDir(d)
    \/ \E q \in Procs : KillNoted(q)
    \/ \E q \in Procs : Begin(q)
    \/ \E q \in Procs, key \in BOOLEAN : Advance(q, key)
    \/ \E q \in Procs, reply \in Replies : Settle(q, reply)
    \/ \E s \in Sessions : DevContinue(s)
    \/ \E s \in Sessions : DevWriteNoted(s)
    \/ \E s \in Sessions : CtxContinue(s)
    \/ \E s \in Sessions : CtxWrite(s)

KillSpec == Init /\ [][KillNext]_vars

\* -------------------------------------------------------------- claims (kill)

Times(seq, x) == Cardinality({i \in DOMAIN seq : seq[i] = x})

\* The process was killed and the transcript has no line it had not read
KilledSameTranscript(q) ==
    /\ killed[q].at # "none"
    /\ NonBlankCount(q[2]) = killed[q].new

\* C22: a pipeline invocation may be killed between any two of its steps:
\* before the cursor write the stored offset is the old one, after it the new
\* one.  When the pipeline is then run again on the same transcript, the
\* region's entries are in the daily log at most once (so at most twice), a
\* handoff document that had at most one auto-captured section still has at
\* most one, and the stored offset is the one the kill left or the new one.
C22_KillAndRerun ==
    \A q \in Procs :
        /\ pc[q] = "extracted" => OffsetOf(q[1], q[2]) = loc[q].cursor
        /\ pc[q] \in {"await", "returned", "write"} => OffsetOf(q[1], q[2]) = NewOffset(q)
        /\ KilledSameTranscript(q) =>
              /\ Times(wrote, <<q[2], killed[q].region>>) <= 1
              /\ killed[q].one => \A d \in MemDirs : SingleSection(handoff[d])
              /\ OffsetOf(q[1], q[2]) \in {killed[q].offset, killed[q].new}


\* -------------------------------------------------------------- claims (gate)

\* The region an invocation extracted has a tool invocation block in an
\* assistant entry, or its text is at least 100 characters long
WorthClassifying(q) ==
    LET raw == Raw(q[2])
        region == loc[q].ex.newLines
    IN \/ \E j \in DOMAIN region : raw[region[j]] = "tool"
       \/ TextLength(PartsOf(raw, region)) >= GateMinLen

InClassifier(where) == where \in {"await", "returned"}

C24_Step ==
    \A q \in Procs :
        /\ InClassifier(pc'[q]) /\ ~InClassifier(pc[q]) =>
              pc[q] = "extracted" /\ Exists(transcript[q[2]]) /\ WorthClassifying(q)
        /\ pc[q] = "extracted" /\ pc'[q] # "extracted" /\ killed'[q] = killed[q] =>
              /\ InClassifier(pc'[q]) <=> WorthClassifying(q)
              /\ pc'[q] = "await" => Len(sent'[q]) > Len(sent[q])
              /\ ~WorthClassifying(q) =>
                    /\ pc'[q] = "idle"
                    /\ sent' = sent
                    /\ <<handoff, devlog, dirs>>' = <<handoff, devlog, dirs>>
                    /\ OffsetOf(q[1], q[2])' = loc[q].ex.totalLines

\* C24: the classifier client is called in an invocation if and only if the
\* transcript exists and the new region has a tool invocation block in an
\* assistant entry or the extracted text is at least 100 characters long; when
\* the pre-filter skips, no document is written, no request is sent and the
\* stored offset is the new one.
C24_GateDecides == [][C24_Step]_vars

\* A region of user and unparseable lines only was skipped: nothing was sent,
\* no document exists and the offset is past the region
C24_Witness ==
    \E q \in Procs :
        /\ pc[q] = "idle"
        /\ killed[q] = NoKill
        /\ Len(extracted[q]) = MaxLines
        /\ \A j \in DOMAIN extracted[q] : Raw(q[2])[extracted[q][j]] \in {"user", "bad"}
        /\ sent[q] = <<>>
        /\ \A d \in MemDirs : ~Exists(handoff[d]) /\ ~Exists(devlog[d])
        /\ OffsetOf(q[1], q[2]) = MaxLines


\* ----------------------------------------------------------- claims (section)

\* The non-empty lines of the classifier's text, trimmed
NonEmptyLines(text) == SelectSeq(TrimEach(Split(Trim(text))), LAMBDA l : l # <<>>)

\* The same, the lines that are the sentinel left out
ClassifierLines(text) == SelectSeq(NonEmptyLines(text), LAMBDA l : l # <<"NONE">>)

\* A line made to begin with '- ' once
OneDash(l) == <<"dash">> \o (IF l # <<>> /\ Head(l) = "dash" THEN Tail(l) ELSE l)

ExpectedSection(ls) ==
    AutoStart \o <<"nl">> \o JoinNl([i \in DOMAIN ls |-> OneDash(ls[i])]) \o <<"nl">> \o AutoEnd

BeginsNone(text) == Trim(text) # <<>> /\ Head(Trim(text)) = "NONE"

\* context-keeper, given text by the classifier, goes on to write
Classified(s) ==
    /\ pc[<<"ctx", s>>] = "returned"
    /\ pc'[<<"ctx", s>>] # "returned"
    /\ killed'[<<"ctx", s>>] = killed[<<"ctx", s>>]
    /\ loc[<<"ctx", s>>].reply.kind = "text"
    /\ ~BeginsNone(loc[<<"ctx", s>>].reply.text)

\* context-keeper writes the handoff document: it holds the section made of
\* the invocation's lines, and the stored offset is the number of non-blank
\* lines read
SectionLeft(s) ==
    pc[<<"ctx", s>>] = "write" /\ pc'[<<"ctx", s>>] # "write"
        /\ killed'[<<"ctx", s>>] = killed[<<"ctx", s>>]
        => /\ Exists(handoff'[loc[<<"ctx", s>>].dir])
           /\ Includes(Content(handoff'[loc[<<"ctx", s>>].dir]),
                       ExpectedSection(loc[<<"ctx", s>>].lines))
           /\ OffsetOf("ctx", s)' = Len(extracted[<<"ctx", s>>])

C25_EveryLineStep ==
    \A s \in Sessions :
        /\ Classified(s) /\ NonEmptyLines(loc[<<"ctx", s>>].reply.text) # <<>> =>
              /\ pc'[<<"ctx", s>>] = "write"
              /\ loc'[<<"ctx", s>>].lines = NonEmptyLines(loc[<<"ctx", s>>].reply.text)
        /\ SectionLeft(s)

\* C25 as stated: when credentials are present, the pre-filter passes and the
\* classifier returns text that does not begin with NONE, context-keeper
\* leaves a handoff document (created if absent) holding the start marker, one
\* bullet per non-empty classifier line in the classifier's order, each
\* beginning with '- ' once, and the end marker; the stored offset is the
\* number of non-blank lines of the transcript.
C25_EveryLine == [][C25_EveryLineStep]_vars

C25_SectionStep ==
    \A s \in Sessions :
        /\ Classified(s) /\ ClassifierLines(loc[<<"ctx", s>>].reply.text) # <<>> =>
              /\ pc'[<<"ctx", s>>] = "write"
              /\ loc'[<<"ctx", s>>].lines = ClassifierLines(loc[<<"ctx", s>>].reply.text)
        /\ SectionLeft(s)

\* C25, amended: the same, with one bullet per non-empty classifier line that
\* is not the sentinel NONE, and a document written when there is such a line.
C25_SectionWritten == [][C25_SectionStep]_vars

\* A two-line transcript read from offset 0 and a classifier text of the lines
\* "w1", "", "- w2", "NONE": the document holds a section of two bullets and
\* the stored offset is 2
C25_Witness ==
    \E d \in MemDirs :
        /\ pc[<<"ctx", "s1">>] = "idle"
        /\ killed[<<"ctx", "s1">>] = NoKill
        /\ Exists(handoff[d])
        /\ Includes(Content(handoff[d]),
                    AutoStart \o <<"nl", "dash", "w1", "nl", "dash", "w2", "nl", EndMarker>>)
        /\ NonBlankCount("s1") = 2
        /\ OffsetOf("ctx", "s1") = 2


\* ------------------------------------------------------ claims (session start)

\* getMemoryDir of session-start
StartMemoryDir(ds) ==
    FirstExisting(<<"claudeLower", "claudeUpper", "nlcLower", "nlcUpper">>, ds, "nlcLower")

\* readDevLog(cwd, dateStr) of session-start: the trimmed text of the log of
\* the day in the memory directory, <<>> for the null of a missing log and of
\* a log of two lines or less
ReadDevLog(ds, logs) ==
    LET file == logs[StartMemoryDir(ds)]
    IN IF ~Exists(file) THEN <<>>
       ELSE IF Len(Split(Trim(Content(file)))) <= 2 THEN <<>>
       ELSE Trim(Content(file))

\* The entries dev-logger appended, without the line end of the last
Shown(entries) == SubSeq(entries, 1, Len(entries) - 1)

\* C29: after dev-logger has appended an entry to the project's log of the day,
\* what a session-start invocation reads as the log of that day holds the
\* entry, whichever directories the other hooks have created in between.
C29_LoggedIsShown ==
    \A d \in MemDirs :
        logged[d] # <<>> => Includes(ReadDevLog(dirs, devlog), Shown(logged[d]))

\* What does hold: the entry is read while session-start resolves the
\* directory dev-logger wrote to
C29_ShownFromSameDir ==
    \A d \in MemDirs :
        logged[d] # <<>> /\ StartMemoryDir(dirs) = d
            => Includes(ReadDevLog(dirs, devlog), Shown(logged[d]))

\* =============================================================== entry points
\* The five hook scripts as functions of what they are given: each body ends
\* by returning, by throwing or by printing, and the entry point wraps it.

Hooks == {"dev-logger", "context-keeper", "memory-sync", "memory-check", "session-start"}
CaptureHooks == {"dev-logger", "context-keeper"}

\* The payload on stdin: nothing, text that is not JSON, an object lacking one
\* field, or a complete object
Payloads == {"empty", "malformed", "noSession", "noTranscript", "noCwd", "ok"}

\* An invocation: its hook, its payload, and what it finds: the transcript
\* file, a sync repository, a working filesystem, a working git, entries from
\* the classifier, and the handoff document (absent, fresh or stale)
Calls ==
    [hook : Hooks, payload : Payloads, transcript : BOOLEAN, repo : BOOLEAN,
     fs : BOOLEAN, git : BOOLEAN, reply : BOOLEAN, handoff : {"absent", "fresh", "stale"}]

\* How a body ends
Returned == [threw |-> FALSE, printed |-> FALSE, touched |-> FALSE]
Thrown == [threw |-> TRUE, printed |-> FALSE, touched |-> FALSE]
Wrote == [threw |-> FALSE, printed |-> FALSE, touched |-> TRUE]
Printed == [threw |-> FALSE, printed |-> TRUE, touched |-> FALSE]

\* main of dev-logger and of context-keeper, inside try
CaptureBody(c) ==
    IF c.payload = "empty" THEN Returned
    ELSE IF c.payload = "malformed" THEN Thrown
    ELSE IF c.payload \in {"noSession", "noTranscript", "noCwd"} THEN Returned
    ELSE IF ~c.transcript THEN Returned
    ELSE IF ~c.fs THEN Thrown
    ELSE Wrote

\* memory-sync, the stdin end handler inside try: JSON.parse, cwd with its
\* fallback to process.cwd(), findRepo, then syncPull or syncPush (which
\* swallow git's errors)
MemorySyncBody(c) ==
    IF c.payload \in {"empty", "malformed"} THEN Thrown
    ELSE IF ~c.repo THEN Returned
    ELSE IF ~c.fs THEN Thrown
    ELSE Wrote

\* memory-check, the stdin end handler inside try
MemoryCheckBody(c) ==
    IF c.payload \in {"empty", "malformed"} THEN Thrown
    ELSE IF c.handoff = "absent" THEN Returned
    ELSE IF ~c.fs THEN Thrown
    ELSE IF c.handoff = "stale" THEN Printed
    ELSE Returned

\* session-start, the stdin end handler inside try, in a project without
\* daily logs: it prints the protocol reminder when it finds a handoff
SessionStartBody(c) ==
    IF c.payload \in {"empty", "malformed"} THEN Thrown
    ELSE IF c.handoff = "absent" THEN Returned
    ELSE IF ~c.fs THEN Thrown
    ELSE Printed

\* Mutant of the entry point: the body runs outside try
Unguarded(b) ==
    [status |-> IF b.threw THEN "failure" ELSE "success",
     printed |-> b.printed, touched |-> b.touched]

\* try { body } catch { } (or catch { process.exit(0) })
Guarded(b) == [status |-> "success", printed |-> b.printed, touched |-> b.touched]

EntryInit ==
    /\ HooksOff
    /\ SyncOff
    /\ ConfigOff
    /\ RaceOff
    /\ LogOff
    /\ NotesOff
    /\ call \in Calls
    /\ result = NoResult

RunCapture ==
    /\ result = NoResult
    /\ call.hook \in CaptureHooks
    /\ result' = Guarded(CaptureBody(call))
    /\ UNCHANGED <<call, besideEntry>>

RunMemorySync ==
    /\ result = NoResult
    /\ call.hook = "memory-sync"
    /\ result' = Guarded(MemorySyncBody(call))
    /\ UNCHANGED <<call, besideEntry>>

RunMemoryCheck ==
    /\ result = NoResult
    /\ call.hook = "memory-check"
    /\ result' = Guarded(MemoryCheckBody(call))
    /\ UNCHANGED <<call, besideEntry>>

RunSessionStart ==
    /\ result = NoResult
    /\ call.hook = "session-start"
    /\ result' = Guarded(SessionStartBody(call))
    /\ UNCHANGED <<call, besideEntry>>

EntryNext == RunCapture \/ RunMemorySync \/ RunMemoryCheck \/ RunSessionStart

EntrySpec == EntryInit /\ [][EntryNext]_vars

\* ------------------------------------------------ claims (unparseable line)

Range(seq) == {seq[n] : n \in DOMAIN seq}

\* The exchange of a run that has read the transcript, line by line
C37_Lines(q) ==
    LET raw == Raw(q[2])
        ex == loc[q].ex
    IN /\ \A j \in DOMAIN ex.parts : raw[ex.parts[j].line] # "bad"
       /\ ex.hasToolUse <=> \E n \in DOMAIN ex.newLines : raw[ex.newLines[n]] = "tool"
       /\ \A i \in NonBlankIdx(raw) :
             Rank(raw, i) \in (loc[q].cursor + 1)..ex.totalLines <=> i \in Range(ex.newLines)
       /\ \A n \in DOMAIN ex.newLines :
             raw[ex.newLines[n]] \in {"user", "long", "tool"} =>
                 \E j \in DOMAIN ex.parts : ex.parts[j].line = ex.newLines[n]
       /\ Range(ex.newLines) \cap Range(extracted[q]) = {}

\* C37: a non-blank line that fails to parse puts no text into the exchange
\* and does not set the tool-use flag, yet is one of the lines the new offset
\* counts; the lines around it are extracted as usual, and a line a run that
\* stored its offset has looped over is in no later run's new lines.
C37_BadLineSkipped == \A q \in Procs : pc[q] = "extracted" => C37_Lines(q)

\* A run has read a line that fails to parse followed by a long response
C37_Witness ==
    \E q \in Procs :
        /\ pc[q] = "extracted"
        /\ Raw(q[2]) = <<"bad", "long">>
        /\ loc[q].ex.newLines = <<1, 2>>
        /\ loc[q].ex.totalLines = 2
        /\ Len(loc[q].ex.parts) = 1
        /\ ~loc[q].ex.hasToolUse

\* ------------------------------------------------- both scripts on one Stop

\* dev-logger and context-keeper are both registered for Stop and run, each
\* as a process of its own, in any interleaving
BothInit ==
    /\ installed = Pipelines
    /\ transcript = [s \in Sessions |-> Absent]
    /\ \E c \in InitCursorDocs : cursorDoc = [p \in Pipelines |-> c]
    /\ dirs = {"claudeUpper"}
    /\ handoff = [d \in MemDirs |-> Absent]
    /\ devlog = [d \in MemDirs |-> Absent]
    /\ pc = [q \in Procs |-> "idle"]
    /\ loc = [q \in Procs |-> NoLoc]
    /\ extracted = [q \in Procs |-> <<>>]
    /\ sent = [q \in Procs |-> <<>>]
    /\ logged = [d \in MemDirs |-> <<>>]
    /\ SyncOff
    /\ ConfigOff
    /\ RaceOff
    /\ LogOff
    /\ NotesOff
    /\ EntryOff

BothNext ==
    \/ \E s \in Sessions, kind \in LineKinds : AppendLine(s, kind)
    \/ \E q \in Procs : Kill(q)
    \/ \E q \in Procs : Begin(q)
    \/ \E q \in Procs, key \in BOOLEAN : Advance(q, key)
    \/ \E q \in Procs, reply \in Replies : Settle(q, reply)
    \/ \E s \in Sessions : DevContinue(s)
    \/ \E s \in Sessions : DevWrite(s)
    \/ \E s \in Sessions : CtxContinue(s)
    \/ \E s \in Sessions : CtxWrite(s)

BothSpec == BothInit /\ [][BothNext]_vars

\* --------------------------------------------------- claims (both scripts)

OtherScript(p) == IF p = "dev" THEN "ctx" ELSE "dev"
Moves(q) == pc'[q] # pc[q] \/ loc'[q] # loc[q]

C36_Frame ==
    \A q \in Procs :
        /\ Moves(q) => cursorDoc'[OtherScript(q[1])] = cursorDoc[OtherScript(q[1])]
        /\ pc[q] = "idle" /\ pc'[q] = "extracted" => loc'[q].cursor = Offset(q)

C36_Regions ==
    \A q \in Procs :
        /\ Len(extracted[q]) = Offset(q)
        /\ \A n \in 1..Len(extracted[q]) :
              /\ extracted[q][n] \in NonBlankIdx(Raw(q[2]))
              /\ Rank(Raw(q[2]), extracted[q][n]) = n

\* C36: dev-logger and context-keeper keep independent cursors: a step of one
\* leaves the other's cursor document as it was and takes its cursor from its
\* own document, so in every interleaving of the two the regions each script
\* extracted are the transcript's non-blank lines up to its own stored offset,
\* each once and in order.
C36_IndependentCursors == [](C36_Regions) /\ [][C36_Frame]_vars

\* dev-logger has stored its offset and awaits the classifier while
\* context-keeper, started after it, is about to store its own
C36_Witness ==
    /\ pc[<<"dev", "s1">>] = "await"
    /\ pc[<<"ctx", "s1">>] = "extracted"
    /\ Offset(<<"dev", "s1">>) >= 1
    /\ Offset(<<"ctx", "s1">>) = 0
    /\ loc[<<"ctx", "s1">>].ex.totalLines = Offset(<<"dev", "s1">>)

\* ------------------------------------------------------ edits of the handoff

\* What an edit can leave in session-handoff.md: no text, text without a
\* marker, text around a marked section, one marker, the markers out of
\* order, the markers twice
EditTexts ==
    { <<>>, <<"h1">>, <<"h1", "S", "E", "h2">>, <<"h1", "S">>, <<"E", "h1", "S">>,
      <<"S", "h1", "S", "E", "h2", "E">> }

\* The human, the agent or the MCP update tool writes session-handoff.md in
\* an existing memory directory; the edit is noted with the position the
\* context-keeper of session s was at.
EditHandoff(d, text, s) ==
    /\ d \in dirs
    /\ handoff[d] # File(text)
    /\ handoff' = [handoff EXCEPT ![d] = File(text)]
    /\ edited' = [during |-> pc[<<"ctx", s>>], dir |-> d, text |-> text]
    /\ UNCHANGED <<installed, transcript, cursorDoc, dirs, devlog, pc, loc, extracted, sent,
                   logged, killed, wrote, syncVars, configVars, raceVars, logVars, entryVars>>

\* context-keeper is the registered script and the memory directory exists
HandoffInit ==
    /\ Init
    /\ installed = {"ctx"}
    /\ dirs = {"claudeUpper"}
    /\ ~Exists(cursorDoc["ctx"])

HandoffNext ==
    \/ \E s \in Sessions, kind \in LineKinds : AppendLine(s, kind)
    \/ \E q \in Procs : Begin(q)
    \/ \E q \in Procs, key \in BOOLEAN : Advance(q, key)
    \/ \E q \in Procs, reply \in Replies : Settle(q, reply)
    \/ \E s \in Sessions : CtxContinue(s)
    \/ \E s \in Sessions : CtxWrite(s)
    \/ \E d \in MemDirs, text \in EditTexts, s \in Sessions : EditHandoff(d, text, s)

HandoffSpec == HandoffInit /\ [][HandoffNext]_vars

\* ----------------------------------------------------------- claims (edits)

\* The text of a document outside its marked section: what is before the first
\* start marker and what is after the first end marker, or all of it when it
\* does not hold both markers
Outside(content) ==
    LET existingStart == IndexOf(content, StartMarker)
        existingEnd == IndexOf(content, EndMarker)
    IN IF existingStart # 0 /\ existingEnd # 0
       THEN <<SubSeq(content, 1, existingStart - 1),
              SubSeq(content, existingEnd + 1, Len(content))>>
       ELSE <<content>>

Retained(file, written) ==
    LET pieces == Outside(IF Exists(file) THEN Content(file) ELSE <<>>)
    IN /\ Exists(written)
       /\ \A i \in DOMAIN pieces : Includes(Content(written), pieces[i])

C34_Step ==
    \A s \in Sessions :
        LET q == <<"ctx", s>>
        IN /\ pc[q] = "write" /\ pc'[q] = "idle" =>
                 /\ Retained(handoff[loc[q].dir], handoff'[loc[q].dir])
                 /\ \A d \in MemDirs \ {loc[q].dir} : handoff'[d] = handoff[d]
           /\ pc[q] # "write" /\ pc'[q] # pc[q] => handoff' = handoff

\* C34: context-keeper reads session-handoff.md in the step that writes it,
\* after the classifier call returned, and no earlier step of it touches the
\* document; so the text outside the marked section of the document as the
\* last edit left it, an edit made during the call included, is in the
\* document after the merge.
C34_EditsRetained == [][C34_Step]_vars

\* An edit made while the classifier call was in flight put text before a
\* marked section, and the merge that followed kept the text
C34_Witness ==
    /\ edited.during = "await"
    /\ edited.text = <<"h1", "S", "E", "h2">>
    /\ pc[<<"ctx", "s1">>] = "idle"
    /\ handoff[edited.dir] # File(edited.text)
    /\ Retained(File(edited.text), handoff[edited.dir])

\* The positions from the first start marker to the first end marker
Span(content) == IndexOf(content, StartMarker)..IndexOf(content, EndMarker)

RECURSIVE OutsideSpan(_, _)
\* The text at the positions of content that are not in span, in order
OutsideSpan(content, span) ==
    IF content = <<>> THEN <<>>
    ELSE OutsideSpan(SubSeq(content, 1, Len(content) - 1), span)
            \o (IF Len(content) \in span THEN <<>> ELSE <<content[Len(content)]>>)

\* written is rest with section put in at one place
PutIn(written, section, rest) ==
    \E i \in 0..Len(rest) :
        written = SubSeq(rest, 1, i) \o section \o SubSeq(rest, i + 1, Len(rest))

BothMarkers(content) ==
    IndexOf(content, StartMarker) # 0 /\ IndexOf(content, EndMarker) # 0
OneMarker(content) ==
    (IndexOf(content, StartMarker) # 0) # (IndexOf(content, EndMarker) # 0)

\* The merge kept the text outside the span once, or all of it after the new
\* section when the document had one marker only
KeptOnce(content, section, written) ==
    /\ BothMarkers(content) => PutIn(written, section, OutsideSpan(content, Span(content)))
    /\ OneMarker(content) => written = section \o <<"nl", "nl">> \o content

\* The step of context-keeper that writes the handoff document
WritesBack(s) == pc[<<"ctx", s>>] = "write" /\ pc'[<<"ctx", s>>] = "idle"
OldText(s) == IF Exists(OldDoc(s)) THEN Content(OldDoc(s)) ELSE <<>>

C35_Step ==
    \A s \in Sessions :
        WritesBack(s) =>
            KeptOnce(OldText(s), NewSection(s), NewText(s))

\* C35: a merge into a document that holds both markers, in either order and
\* any number of times, keeps every character outside the span from the first
\* start marker to the end of the first end marker exactly once; into a
\* document with one of the markers only, it prepends the new section and
\* keeps the prior content after it.
C35_OutsideKeptOnce == [][C35_Step]_vars

C35_OrderedStep ==
    \A s \in Sessions :
        WritesBack(s) /\ (BothMarkers(OldText(s)) =>
                         IndexOf(OldText(s), StartMarker) < IndexOf(OldText(s), EndMarker)) =>
            KeptOnce(OldText(s), NewSection(s), NewText(s))

\* What does hold: the same, for documents whose first start marker is
\* before their first end marker.
C35_OrderedKeptOnce == [][C35_OrderedStep]_vars

\* ------------------------------------------------ claims (memory directory)
\* getMemoryDir of memory-sync
SyncMemoryDir(ds) == FirstExisting(<<"claudeLower", "claudeUpper">>, ds, "claudeLower")

Resolved(ds) ==
    {GetMemoryDir(ds), GetAutoMemoryDir(ds), StartMemoryDir(ds), SyncMemoryDir(ds)}

\* C33: whatever directories exist, also after the hooks created some,
\* dev-logger, context-keeper, session-start and memory-sync resolve one and
\* the same memory directory; so the entries logged for the project and date
\* are in one daily log, and that log is in the directory sync mirrors.
C33_OneMemoryDir ==
    /\ Cardinality(Resolved(dirs)) = 1
    /\ Cardinality({d \in MemDirs : logged[d] # <<>>}) <= 1
    /\ \A d \in MemDirs : logged[d] # <<>> => d = SyncMemoryDir(dirs)

\* What does hold: once a ~/.claude/projects/<key>/memory directory exists,
\* the four scripts resolve the same directory.
C33_SameOnceClaudeDir ==
    dirs \cap {"claudeLower", "claudeUpper"} # {} => Cardinality(Resolved(dirs)) = 1

\* ------------------------------------------------------------- claims (entry)

Ended == result # NoResult
Silent == call.hook \in CaptureHooks \cup {"memory-sync"}
MissingField == call.payload \in {"noSession", "noTranscript", "noCwd"}
\* The fields whose absence makes the hook return: all three for the capture
\* hooks, none for the others (cwd falls back to process.cwd())
MissingRequired == call.hook \in CaptureHooks /\ MissingField

MaxOffset == 2

\* A document that cannot be read, although an entry was stored in it
Unreadable == File([valid |-> FALSE, data |-> [k \in {OldSession} |-> 1]])

StoredDocs ==
    { Absent, Unreadable, Truncated,
      File([valid |-> TRUE, data |-> EmptyData]),
      File([valid |-> TRUE, data |-> [k \in {OldSession} |-> 1]]),
      File([valid |-> TRUE, data |-> [k \in {OldSession, "s1"} |-> 1]]) }

CursorInit ==
    /\ HooksOff
    /\ SyncOff
    /\ ConfigOff
    /\ LogOff
    /\ NotesOff
    /\ pipeline \in Pipelines
    /\ transcripts = [s \in RaceSessions |-> Absent]
    /\ cursorFile \in StoredDocs
    /\ at = [s \in RaceSessions |-> "idle"]
    /\ held = [s \in RaceSessions |-> NoHeld]
    /\ emitted = [s \in RaceSessions |-> <<>>]
    /\ finished = [s \in RaceSessions |-> -1]
    /\ started = 0
    /\ call = NoCall
    /\ result = NoResult

\* getCursor(cwd, sessionId) / getContextCursor(cwd, sessionId)
GetOffset(s) ==
    /\ result' = [status |-> "read", session |-> s, doc |-> cursorFile,
                  offset |-> ReadCursor(pipeline, cursorFile, s)]
    /\ UNCHANGED <<call, hookVars, syncVars, configVars, raceVars, logVars, noteVars>>

\* setCursor(cwd, sessionId, line) / setContextCursor(cwd, sessionId, line)
SetOffset(s, line) ==
    /\ cursorFile' = WriteCursor(pipeline, cursorFile, s, line)
    /\ result' = [status |-> "stored", session |-> s, doc |-> cursorFile, offset |-> line]
    /\ UNCHANGED <<call, pipeline, transcripts, at, held, emitted, finished, started,
                   hookVars, syncVars, configVars, logVars, noteVars>>

CursorNext ==
    \/ \E s \in RaceSessions : GetOffset(s)
    \/ \E s \in RaceSessions, line \in 0..MaxOffset : SetOffset(s, line)

CursorSpec == CursorInit /\ [][CursorNext]_vars

\* ------------------------------------------------------------ claims (cursor)

\* The document can be read and parsed
Parses(doc) == Exists(doc) /\ Content(doc).valid

\* C26: reading the offset of a session gives 0 when the cursor document is
\* absent, unreadable, not valid JSON or without an entry for the session (and
\* the entry otherwise); writing an offset over a document that is unreadable
\* or not valid JSON takes the old content as empty and stores the new entry,
\* and over a document that parses keeps the other sessions' entries.
C26_ZeroWhenNoRecord ==
    /\ result.status = "read" =>
          result.offset =
              IF Parses(result.doc) /\ result.session \in DOMAIN Content(result.doc).data
              THEN Content(result.doc).data[result.session]
              ELSE 0
    /\ result.status = "stored" =>
          /\ Parses(cursorFile)
          /\ Content(cursorFile).data[result.session] = result.offset
          /\ ~Parses(result.doc) => DOMAIN Content(cursorFile).data = {result.session}
          /\ Parses(result.doc) =>
                \A k \in DOMAIN Content(result.doc).data \ {result.session} :
                    /\ k \in DOMAIN Content(cursorFile).data
                    /\ Content(cursorFile).data[k] = Content(result.doc).data[k]

\* An offset was stored over the unreadable document: the document now parses
\* and holds that one entry
C26_Witness ==
    /\ result.status = "stored"
    /\ result.doc = Unreadable
    /\ result.session = "s2"
    /\ cursorFile = File([valid |-> TRUE, data |-> [k \in {"s2"} |-> MaxOffset]])

====
